---- MODULE Spec2Model ----
(***************************************************************************)
(* Sphere Royale server: match lifecycle (startGameSequence, adminReset,   *)
(* game loop, crash recovery, scheduler), leader election, registration    *)
(* and payment verification, as state machines over the shared stores      *)
(* (MongoDB collections, Redis keys) and each process's memory.            *)
(*                                                                         *)
(* An `await` of the source is one step of the model: the step performs    *)
(* the awaited store operation and runs the continuation up to the next    *)
(* await, whose arguments it captures (JavaScript evaluates the arguments  *)
(* of a call when the call is issued).                                     *)
(***************************************************************************)
EXTENDS Integers, Sequences, FiniteSets, TLC

\* ------------------------------------------------------------------ bounds
\* Server processes sharing the MongoDB and Redis stores.
Instances == {"A", "B"}
\* Date.now() takes the values 1..MaxClock.
MaxClock == 2
\* Handler invocations suspended at an await, per process.
MaxTasks == 2
\* Fire-and-forget store writes in flight.
MaxWrites == 1
\* POST /register requests.
MaxReqs == 2
\* Process restarts.
MaxCrashes == 1
\* execute() calls made on the circuit breaker.
MaxCalls == 5
\* Calls of the physics step in one match.
MaxFrames == 3
MaxPushes == 4
MaxRetries == 2
\* Requests that carry an admin token.
MaxAuths == 3
\* Admin tokens signed.
MaxTokens == 3

\* ------------------------------------------------------- program constants
\* JavaScript null (Schedule.nextGameTime, serverGameState.nextGameTime).
NULL == -1
\* new Date(null): the epoch, what POST /schedule stores for a null time.
EPOCH == 0
\* The gameId 'default' of a process that has not started a round.
DEFAULT_GAME == 0
\* serverGameState.totalPlayers before any schedule is loaded.
DEFAULT_TOTAL_PLAYERS == 8
\* PX of game_engine_lock in seconds, the election interval being 1 second.
LEASE_TTL == 2

VARIABLES
    now,            \* Date.now()
    boot,           \* per process: position in the mongoose.connect().then chain
    syncPending,    \* per process: Schedule.findOne().then of the initial sync not run yet
    life,           \* per process: number of restarts so far (names a process lifetime)
    crashes,        \* restarts so far, all processes
    status,         \* serverGameState.status
    prevStatus,     \* serverGameState._prevStatus
    spheres,        \* serverGameState.spheres.length
    nextGameTime,   \* serverGameState.nextGameTime
    totalPlayers,   \* serverGameState.totalPlayers
    currentGameId,  \* serverGameState.currentGameId, also global.__currentGameId
    isLeader,       \* the election flag of each process
    tasks,          \* per process: handler invocations suspended at an await
    matches,        \* Match collection, by gameId
    schedule,       \* Schedule document of type 'main'
    jobs,           \* pending 'start-game' jobs of the Agenda queue (their run times)
    participants,   \* Participant collection
    writes,         \* fire-and-forget Match.updateOne calls in flight
    lastCall,       \* the last start()/reset() call and how it returned
    lock,           \* Redis key game_engine_lock: its value, or "none"
    lockTTL,        \* seconds until game_engine_lock expires
    epc,            \* per process: the await its election callback is suspended at
    pollDue,        \* per process: the 1s election interval has fired
    reqs,           \* POST /register requests: where each stands and its response
    cache,          \* Redis keys tx_verify:<txHash> holding 'true'
    breaker,        \* one CircuitBreaker: state, failureCount, nextAttemptAt
    calls,          \* the execute() calls on the breaker: where each stands
    settled,        \* the outcomes of the wrapped operations, in settling order
    arena,          \* serverGameState.spheres: the spheres of the match
    events,         \* the onEvent calls of the match so far, in order
    frame,          \* calls of updateServerPhysicsEngine made so far
    pushes,         \* fire-and-forget $push updates of Match.events in flight
    eventLog,       \* per gameId: the events array of its Match document
    retry,          \* one withRetry call: its options, attempt and outcome
    ops,            \* per attempt: the promise the operation returned
    announced,      \* the payload of the last 'scheduleUpdated' signal
    lastTime,       \* per process: lastTime of its game loop
    stepDt,         \* per process: the dt of its last physics step
    ledAt,          \* per process: when its loop last ran as leader
    blacklist,      \* Redis: the jti that have a blacklist:<jti> key
    signed,         \* the jti of the admin tokens signed so far
    spent,          \* the jti a logout or a refresh has answered with success
    auths           \* the requests that carry an admin token

vars == <<now, boot, syncPending, life, crashes, status, prevStatus, spheres,
          nextGameTime, totalPlayers, currentGameId, isLeader, tasks, matches,
          schedule, jobs, participants, writes, lastCall, lock, lockTTL, epc,
          pollDue, reqs, cache, breaker, calls, settled, arena, events,
          frame, pushes, eventLog, retry, ops, announced, lastTime, stepDt, ledAt,
          blacklist, signed, spent, auths>>

electVars == <<lock, lockTTL, epc, pollDue>>
regVars == <<reqs, cache>>
memVars == <<status, prevStatus, spheres, nextGameTime, totalPlayers, currentGameId>>
procVars == <<boot, syncPending, life, crashes>>
breakerVars == <<breaker, calls, settled>>
physVars == <<arena, events, frame>>
logVars == <<pushes, eventLog>>
retryVars == <<retry, ops>>
loopVars == <<lastTime, stepDt, ledAt>>
authVars == <<blacklist, signed, spent, auths>>
otherLibVars == <<breakerVars, physVars, logVars, retryVars, loopVars, authVars>>
libVars == <<otherLibVars, announced>>

GameIds == 1..MaxClock
CallIds == 1..MaxCalls
Attempts == 1..(MaxRetries + 1)
Reqs == 1..MaxReqs

\* ------------------------------------------------------------------ helpers
RemoveAt(s, k) == [j \in 1..(Len(s) - 1) |-> IF j < k THEN s[j] ELSE s[j + 1]]

Max(a, b) == IF a > b THEN a ELSE b

\* withRetry before it is called. raised: the errors its attempts ended
\* with, waited: the delays slept between attempts, outcome: the value
\* returned or the error thrown.
NoRetry ==
    [pc |-> "idle", maxRetries |-> 0, timeoutMs |-> 0, attempt |-> 0,
     invoked |-> 0, raised |-> <<>>, waited |-> <<>>, outcome |-> <<>>]

\* A Match document that does not exist.
NoMatch ==
    [status |-> "none", totalPlayers |-> 0, humans |-> <<>>, bots |-> 0,
     cancelReason |-> "", endedAt |-> FALSE, creator |-> <<"", 0>>,
     preRecovery |-> FALSE, restartedBy |-> <<"", 0>>,
     trigger |-> "", before |-> 0, target |-> 0]

NoSchedule == [exists |-> FALSE, nextGameTime |-> NULL, totalPlayers |-> 0]

\* The payload of a 'scheduleUpdated' signal.
Signal(time, total) ==
    [sent |-> TRUE, nextGameTime |-> time, totalPlayers |-> total]

\* No 'scheduleUpdated' signal has been emitted.
NoSignal == [sent |-> FALSE, nextGameTime |-> NULL, totalPlayers |-> 0]

\* What lastCall holds: the process, how its start() or reset() returned and,
\* for a start(), who called it.
Call(i, ret) == [inst |-> i, ret |-> ret, by |-> ""]

NoCall == Call("", "none")

\* A POST /register request that has not arrived. party: the wallet is a
\* party to the transaction on the chain; replay: the duplicate lookup was
\* answered when a row with the same transaction was there.
NoReq ==
    [pc |-> "free", username |-> "", walletAddress |-> "", chain |-> "",
     paymentTxHash |-> <<>>, gameId |-> DEFAULT_GAME, verified |-> FALSE,
     party |-> FALSE, replay |-> FALSE, resp |-> [code |-> 0, error |-> ""]]

\* An execute() call on the breaker. pc: "new" before the call, "flight" while
\* its operation is awaited, "done"; invoked: how many times its operation was
\* invoked; probe: the call moved the breaker to HALF_OPEN; result: "ok" or
\* "fail" as the operation settled, "rejected" when the breaker threw;
\* at: the state of the breaker the operation was invoked in.
NoExecute ==
    [pc |-> "new", invoked |-> 0, probe |-> FALSE, result |-> "", at |-> ""]

\* A suspended invocation of a handler.
\* pc: the await it is suspended at; gid, humans, bots, total, time: the
\* arguments captured for the awaited call and the handler's locals; round: the
\* gameId a startGameSequence invocation generated; failed: its catch block ran;
\* trigger, before, target: who called startGameSequence, how many confirmed
\* participants were waiting and which player target the schedule held then.
Task(pc, gid, total, time) ==
    [pc |-> pc, gid |-> gid, humans |-> <<>>, bots |-> 0, total |-> total,
     time |-> time, round |-> gid, failed |-> FALSE,
     trigger |-> "", before |-> 0, target |-> 0]

\* Match.updateOne({ gameId }, update): no document matched is not an error.
UpdateMatch(g, row) ==
    IF g \in GameIds /\ matches[g].status # "none"
    THEN [matches EXCEPT ![g] = row]
    ELSE matches

\* --------------------------------------------------------------------- Init
\* The store as a new deployment finds it, no process having done anything.
InitStore ==
    /\ now = 1
    /\ matches = [g \in GameIds |-> NoMatch]
    /\ schedule = NoSchedule
    /\ jobs = <<>>
    /\ participants = {}
    /\ writes = <<>>
    /\ cache = {}
    /\ reqs = [r \in Reqs |-> NoReq]
    /\ lastCall = NoCall
    /\ life = [i \in Instances |-> 0]
    /\ crashes = 0
    /\ announced = NoSignal

\* new CircuitBreaker(...): CLOSED, no failure counted, no call made.
InitBreaker ==
    /\ breaker = [state |-> "CLOSED", failureCount |-> 0, nextAttemptAt |-> 0]
    /\ calls = [c \in CallIds |-> NoExecute]
    /\ settled = <<>>

\* serverGameState.spheres = []: no match has been generated.
InitArena ==
    /\ arena = <<>>
    /\ events = <<>>
    /\ frame = 0

\* No event update is in flight and no Match document has events.
InitLog ==
    /\ pushes = <<>>
    /\ eventLog = [g \in GameIds |-> <<>>]

\* withRetry has not been called.
InitRetry ==
    /\ retry = NoRetry
    /\ ops = [a \in Attempts |-> "none"]

\* `let lastTime = Date.now()` when the module is evaluated.
InitLoop ==
    /\ lastTime = [i \in Instances |-> 1]
    /\ stepDt = [i \in Instances |-> 0]
    /\ ledAt = [i \in Instances |-> 1]

\* The requests with an admin token the model follows.
Auths == 1..MaxAuths

\* A request slot no request has used.
NoAuth == [pc |-> "free", kind |-> "", jti |-> 0, late |-> FALSE, answer |-> ""]

\* POST /admin/login has signed one token, and nothing is blacklisted.
InitAuth ==
    /\ blacklist = {}
    /\ signed = {1}
    /\ spent = {}
    /\ auths = [q \in Auths |-> NoAuth]

\* The memory of a process whose module has just been evaluated.
InitMemory ==
    /\ status = [i \in Instances |-> "IDLE"]
    /\ prevStatus = [i \in Instances |-> "IDLE"]
    /\ spheres = [i \in Instances |-> 0]
    /\ nextGameTime = [i \in Instances |-> NULL]
    /\ totalPlayers = [i \in Instances |-> DEFAULT_TOTAL_PLAYERS]
    /\ currentGameId = [i \in Instances |-> DEFAULT_GAME]
    /\ tasks = [i \in Instances |-> <<>>]
    /\ epc = [i \in Instances |-> "idle"]
    /\ InitBreaker
    /\ InitArena
    /\ InitLog
    /\ InitRetry
    /\ InitLoop
    /\ InitAuth

\* Every process has just been started: nothing of the boot chain has run, no
\* election interval has fired.
Init ==
    /\ InitStore
    /\ InitMemory
    /\ boot = [i \in Instances |-> "redis"]
    /\ syncPending = [i \in Instances |-> TRUE]
    /\ isLeader = [i \in Instances |-> FALSE]
    /\ lock = "none"
    /\ lockTTL = 0
    /\ pollDue = [i \in Instances |-> TRUE]

\* Every process has run its boot chain and its initial sync on the empty
\* store, and process A has just taken the lease.
InitUp ==
    /\ InitStore
    /\ InitMemory
    /\ boot = [i \in Instances |-> "up"]
    /\ syncPending = [i \in Instances |-> FALSE]
    /\ isLeader = [i \in Instances |-> i = "A"]
    /\ lock = "A"
    /\ lockTTL = LEASE_TTL
    /\ pollDue = [i \in Instances |-> FALSE]

\* -------------------------------------------------------------------- clock
Tick ==
    /\ now < MaxClock
    /\ now' = now + 1
    /\ UNCHANGED <<libVars, memVars, procVars, isLeader, tasks, matches, schedule, jobs,
                   participants, writes, lastCall, electVars, regVars>>

\* --------------------------------------------------------------------- boot
\* mongoose.connect().then: await initRedis()
BootRedis(i) ==
    /\ boot[i] = "redis"
    /\ boot' = [boot EXCEPT ![i] = "agenda"]
    /\ UNCHANGED <<libVars, now, syncPending, life, crashes, memVars, isLeader, tasks,
                   matches, schedule, jobs, participants, writes, lastCall, electVars, regVars>>

\* mongoose.connect().then: await agenda.start()
BootAgenda(i) ==
    /\ boot[i] = "agenda"
    /\ boot' = [boot EXCEPT ![i] = "recovery"]
    /\ UNCHANGED <<libVars, now, syncPending, life, crashes, memVars, isLeader, tasks,
                   matches, schedule, jobs, participants, writes, lastCall, electVars, regVars>>

\* Match.updateMany({ status: { $in: ['PLAYING', 'GENERATING'] } }, CANCELLED)
StaleMatchesCancelled(i) ==
    [g \in GameIds |->
        IF matches[g].status \in {"PLAYING", "GENERATING"}
        THEN [matches[g] EXCEPT !.status = "CANCELLED",
                                !.cancelReason = "Server restarted",
                                !.endedAt = TRUE,
                                !.restartedBy = <<i, life[i]>>]
        ELSE matches[g]]

\* mongoose.connect().then: the crash recovery update; a rejection goes to
\* .catch, which logs it.
CrashRecovery(i) ==
    /\ boot[i] = "recovery"
    /\ boot' = [boot EXCEPT ![i] = "up"]
    /\ \E ok \in BOOLEAN :
        matches' = IF ok THEN StaleMatchesCancelled(i) ELSE matches
    /\ UNCHANGED <<libVars, now, syncPending, life, crashes, memVars, isLeader, tasks,
                   schedule, jobs, participants, writes, lastCall, electVars, regVars>>

\* Schedule.findOne({ type: 'main' }).then(...)
InitialSync(i) ==
    /\ syncPending[i]
    /\ syncPending' = [syncPending EXCEPT ![i] = FALSE]
    /\ IF schedule.exists
       THEN /\ nextGameTime' = [nextGameTime EXCEPT ![i] = schedule.nextGameTime]
            /\ totalPlayers' = [totalPlayers EXCEPT ![i] = schedule.totalPlayers]
       ELSE UNCHANGED <<nextGameTime, totalPlayers>>
    /\ UNCHANGED <<libVars, now, boot, life, crashes, status, prevStatus, spheres,
                   currentGameId, isLeader, tasks, matches, schedule, jobs,
                   participants, writes, lastCall, electVars, regVars>>

\* The process dies and is started again: its memory is that of a new process.
Crash(i) ==
    /\ crashes < MaxCrashes
    /\ crashes' = crashes + 1
    /\ life' = [life EXCEPT ![i] = @ + 1]
    /\ boot' = [boot EXCEPT ![i] = "redis"]
    /\ syncPending' = [syncPending EXCEPT ![i] = TRUE]
    /\ status' = [status EXCEPT ![i] = "IDLE"]
    /\ prevStatus' = [prevStatus EXCEPT ![i] = "IDLE"]
    /\ spheres' = [spheres EXCEPT ![i] = 0]
    /\ nextGameTime' = [nextGameTime EXCEPT ![i] = NULL]
    /\ totalPlayers' = [totalPlayers EXCEPT ![i] = DEFAULT_TOTAL_PLAYERS]
    /\ currentGameId' = [currentGameId EXCEPT ![i] = DEFAULT_GAME]
    /\ isLeader' = [isLeader EXCEPT ![i] = FALSE]
    /\ tasks' = [tasks EXCEPT ![i] = <<>>]
    /\ epc' = [epc EXCEPT ![i] = "idle"]
    /\ UNCHANGED <<libVars, now, matches, schedule, jobs, participants, writes, lastCall,
                   lock, lockTTL, pollDue, regVars>>

\* ------------------------------------------------------ startGameSequence
\* A guard that lets a start through while another one is generating.
GuardNotPlaying(i) == status[i] \in {"IDLE", "GENERATING"}

\* The state machine guard of startGameSequence.
StartGuard(i) == status[i] = "IDLE"

\* The confirmed participants no Match has taken into its snapshot.
Waiting ==
    {p \in participants :
        /\ p.status = "CONFIRMED"
        /\ \A g \in GameIds :
              \A n \in DOMAIN matches[g].humans : matches[g].humans[n] # p.username}

\* The reset handlers in flight learn that a start() was accepted after they
\* began.
Overtaken(ts) ==
    [n \in DOMAIN ts |->
        IF ts[n].pc \in {"rclear", "rcancel"}
        THEN [ts[n] EXCEPT !.trigger = "overtaken"]
        ELSE ts[n]]

\* startGameSequence up to `await matchDoc.save()`: the guard, the new gameId,
\* GENERATING, and the Match document built from the state as it is now.
StartGameSequence(i, trigger) ==
    IF ~StartGuard(i)
    THEN /\ lastCall' = [Call(i, "blocked") EXCEPT !.by = trigger]
         /\ UNCHANGED <<memVars, tasks>>
    ELSE /\ Len(tasks[i]) < MaxTasks
         /\ currentGameId' = [currentGameId EXCEPT ![i] = now]
         /\ status' = [status EXCEPT ![i] = "GENERATING"]
         /\ prevStatus' = [prevStatus EXCEPT ![i] = "GENERATING"]
         /\ tasks' = [tasks EXCEPT ![i] =
                Append(Overtaken(@), [Task("save", now, totalPlayers[i], NULL) EXCEPT
                    !.trigger = trigger,
                    !.before = Cardinality(Waiting),
                    !.target = IF schedule.exists THEN schedule.totalPlayers
                               ELSE totalPlayers[i]])]
         /\ lastCall' = [Call(i, "accepted") EXCEPT !.by = trigger]
         /\ UNCHANGED <<spheres, nextGameTime, totalPlayers>>

\* socket.on('adminStartGame'): the token is checked against the Redis
\* blacklist, so the command has an effect only once Redis is connected.
AdminStartGame(i) ==
    /\ boot[i] # "redis"
    /\ StartGameSequence(i, "admin")
    /\ UNCHANGED <<libVars, now, procVars, isLeader, matches, schedule, jobs,
                   participants, writes, electVars, regVars>>

\* agenda.define('start-game'): a due job runs on a process whose Agenda has
\* started; the handler has its own guard and then calls startGameSequence.
StartGameJob(i, k) ==
    /\ boot[i] \in {"recovery", "up"}
    /\ k \in 1..Len(jobs)
    /\ jobs[k] <= now
    /\ jobs' = RemoveAt(jobs, k)
    /\ IF status[i] # "IDLE"
       THEN /\ lastCall' = [Call(i, "blocked") EXCEPT !.by = "job"]
            /\ UNCHANGED <<memVars, tasks>>
       ELSE StartGameSequence(i, "job")
    /\ UNCHANGED <<libVars, now, procVars, isLeader, matches, schedule, participants, writes, electVars, regVars>>

\* The catch block of startGameSequence up to its `await Match.updateOne`:
\* the gameId is read from serverGameState when the catch block runs.
StartCatch(i, t) ==
    [t EXCEPT !.pc = "cancel", !.gid = currentGameId[i], !.failed = TRUE]

\* `await matchDoc.save()` settles. The insert fails on a duplicate gameId
\* (unique index) or on a store error.
StartSave(i, k) ==
    /\ k \in 1..Len(tasks[i])
    /\ tasks[i][k].pc = "save"
    /\ LET t == tasks[i][k] IN
       \E ok \in BOOLEAN :
         IF ok /\ matches[t.gid].status = "none"
         THEN /\ matches' = [matches EXCEPT ![t.gid] =
                    [NoMatch EXCEPT !.status = "GENERATING",
                                    !.totalPlayers = t.total,
                                    !.creator = <<i, life[i]>>,
                                    !.preRecovery = (boot[i] # "up"),
                                    !.trigger = t.trigger,
                                    !.before = t.before,
                                    !.target = t.target]]
              /\ tasks' = [tasks EXCEPT ![i][k] =
                    [t EXCEPT !.pc = "find", !.gid = currentGameId[i]]]
         ELSE /\ matches' = matches
              /\ tasks' = [tasks EXCEPT ![i][k] = StartCatch(i, t)]
    /\ UNCHANGED <<libVars, now, procVars, memVars, isLeader, schedule, jobs,
                   participants, writes, lastCall, electVars, regVars>>

\* Participant.find({ gameId, status: 'CONFIRMED' }).sort({ joinedAt: 1 })
Confirmed(g) ==
    {p \in participants : p.gameId = g /\ p.status = "CONFIRMED"}

\* The usernames of a set of participants by joinedAt.
RECURSIVE ByJoinedAt(_)
ByJoinedAt(ps) ==
    IF ps = {} THEN <<>>
    ELSE LET p == CHOOSE q \in ps : \A r \in ps : q.joinedAt <= r.joinedAt
         IN <<p.username>> \o ByJoinedAt(ps \ {p})

\* botsNeeded = Math.max(0, totalPlayers - humanCount)
BotsNeeded(total, humanCount) == Max(0, total - humanCount)

\* `await Participant.find(...)` settles: the snapshot, the sphere set, and the
\* PLAYING update is issued for the gameId current now.
StartFind(i, k) ==
    /\ k \in 1..Len(tasks[i])
    /\ tasks[i][k].pc = "find"
    /\ LET t == tasks[i][k]
           humans == ByJoinedAt(Confirmed(t.gid))
           bots == BotsNeeded(totalPlayers[i], Len(humans))
       IN \E ok \in BOOLEAN :
         IF ok
         THEN /\ spheres' = [spheres EXCEPT ![i] = Len(humans) + bots]
              /\ tasks' = [tasks EXCEPT ![i][k] =
                    [t EXCEPT !.pc = "playing", !.gid = currentGameId[i],
                              !.humans = humans, !.bots = bots]]
         ELSE /\ spheres' = spheres
              /\ tasks' = [tasks EXCEPT ![i][k] = StartCatch(i, t)]
    /\ UNCHANGED <<libVars, now, procVars, status, prevStatus, nextGameTime, totalPlayers,
                   currentGameId, isLeader, matches, schedule, jobs, participants,
                   writes, lastCall, electVars, regVars>>

\* `await Match.updateOne({ gameId }, { status: 'PLAYING', participants })`
\* settles, then the in-memory status becomes PLAYING.
StartPlaying(i, k) ==
    /\ k \in 1..Len(tasks[i])
    /\ tasks[i][k].pc = "playing"
    /\ LET t == tasks[i][k] IN
       \E ok \in BOOLEAN :
         IF ok
         THEN /\ matches' = UpdateMatch(t.gid,
                    [matches[t.gid] EXCEPT !.status = "PLAYING",
                                           !.humans = t.humans,
                                           !.bots = t.bots])
              /\ status' = [status EXCEPT ![i] = "PLAYING"]
              /\ prevStatus' = [prevStatus EXCEPT ![i] = "PLAYING"]
              /\ tasks' = [tasks EXCEPT ![i][k] = [t EXCEPT !.pc = "clear"]]
         ELSE /\ UNCHANGED <<matches, status, prevStatus>>
              /\ tasks' = [tasks EXCEPT ![i][k] = StartCatch(i, t)]
    /\ UNCHANGED <<libVars, now, procVars, spheres, nextGameTime, totalPlayers,
                   currentGameId, isLeader, schedule, jobs, participants, writes,
                   lastCall, electVars, regVars>>

\* Schedule.findOneAndUpdate({ type: 'main' }, { nextGameTime: null })
ScheduleCleared ==
    IF schedule.exists THEN [schedule EXCEPT !.nextGameTime = NULL] ELSE schedule

\* `await Schedule.findOneAndUpdate(...)` settles and startGameSequence returns.
StartClear(i, k) ==
    /\ k \in 1..Len(tasks[i])
    /\ tasks[i][k].pc = "clear"
    /\ LET t == tasks[i][k] IN
       \E ok \in BOOLEAN :
         IF ok
         THEN /\ schedule' = ScheduleCleared
              /\ nextGameTime' = [nextGameTime EXCEPT ![i] = NULL]
              /\ tasks' = [tasks EXCEPT ![i] = RemoveAt(@, k)]
              /\ lastCall' = Call(i, "started")
         ELSE /\ UNCHANGED <<schedule, nextGameTime, lastCall>>
              /\ tasks' = [tasks EXCEPT ![i][k] = StartCatch(i, t)]
    /\ UNCHANGED <<libVars, now, procVars, status, prevStatus, spheres, totalPlayers,
                   currentGameId, isLeader, matches, jobs, participants, writes, electVars, regVars>>

\* The status the catch block of startGameSequence leaves.
CatchStatus == "IDLE"

\* The catch block's `await Match.updateOne(..., CANCELLED).catch(() => {})`
\* settles, applied (ok) or rejected and swallowed, the status becomes IDLE and
\* startGameSequence returns.
StartCancelSettles(i, k, ok) ==
    /\ k \in 1..Len(tasks[i])
    /\ tasks[i][k].pc = "cancel"
    /\ LET t == tasks[i][k] IN
         matches' = IF ok
                    THEN UpdateMatch(t.gid,
                            [matches[t.gid] EXCEPT !.status = "CANCELLED",
                                                   !.cancelReason = "Start failed",
                                                   !.endedAt = TRUE])
                    ELSE matches
    /\ status' = [status EXCEPT ![i] = CatchStatus]
    /\ tasks' = [tasks EXCEPT ![i] = RemoveAt(@, k)]
    /\ lastCall' = Call(i, "failed")
    /\ UNCHANGED <<libVars, now, procVars, prevStatus, spheres, nextGameTime, totalPlayers,
                   currentGameId, isLeader, schedule, jobs, participants, writes, electVars, regVars>>

StartCancel(i, k) == \E ok \in BOOLEAN : StartCancelSettles(i, k, ok)

\* ------------------------------------------------------------ adminResetGame
\* A fire-and-forget Match.updateOne: issued now, applied (or lost) later.
Write(op, g) == [op |-> op, gid |-> g]

\* socket.on('adminResetGame') with a valid token, up to its first await: the
\* cancel of the match in progress is issued and not awaited, then IDLE, the
\* sphere set is emptied and the schedule update is issued.
AdminResetGame(i) ==
    /\ boot[i] # "redis"
    /\ Len(tasks[i]) < MaxTasks
    /\ IF status[i] \in {"PLAYING", "GENERATING"}
       THEN /\ Len(writes) < MaxWrites
            /\ writes' = Append(writes, Write("cancel", currentGameId[i]))
       ELSE writes' = writes
    /\ status' = [status EXCEPT ![i] = "IDLE"]
    /\ spheres' = [spheres EXCEPT ![i] = 0]
    /\ tasks' = [tasks EXCEPT ![i] = Append(@, Task("rclear", DEFAULT_GAME, 0, NULL))]
    /\ UNCHANGED <<libVars, now, procVars, prevStatus, nextGameTime, totalPlayers,
                   currentGameId, isLeader, matches, schedule, jobs, participants,
                   lastCall, electVars, regVars>>

\* adminResetGame: `await Schedule.findOneAndUpdate(...)` settles. The handler
\* has no try/catch: a rejection ends it there.
ResetClear(i, k) ==
    /\ k \in 1..Len(tasks[i])
    /\ tasks[i][k].pc = "rclear"
    /\ \E ok \in BOOLEAN :
         IF ok
         THEN /\ schedule' = ScheduleCleared
              /\ nextGameTime' = [nextGameTime EXCEPT ![i] = NULL]
              /\ tasks' = [tasks EXCEPT ![i][k].pc = "rcancel"]
              /\ lastCall' = lastCall
         ELSE /\ UNCHANGED <<schedule, nextGameTime>>
              /\ tasks' = [tasks EXCEPT ![i] = RemoveAt(@, k)]
              /\ lastCall' = Call(i, "resetFailed")
    /\ UNCHANGED <<libVars, now, procVars, status, prevStatus, spheres, totalPlayers,
                   currentGameId, isLeader, matches, jobs, participants, writes, electVars, regVars>>

\* adminResetGame: `await agenda.cancel({ name: 'start-game' })` settles, the
\* handler emits 'scheduleUpdated' with no next time and the player target of
\* the process, and returns.
ResetCancelJobs(i, k) ==
    /\ k \in 1..Len(tasks[i])
    /\ tasks[i][k].pc = "rcancel"
    /\ \E ok \in BOOLEAN :
         /\ jobs' = IF ok THEN <<>> ELSE jobs
         /\ lastCall' = Call(i, IF ~ok THEN "resetFailed"
                                 ELSE IF tasks[i][k].trigger = "overtaken"
                                 THEN "resetOvertaken" ELSE "reset")
         /\ announced' = IF ok THEN Signal(NULL, totalPlayers[i]) ELSE announced
    /\ tasks' = [tasks EXCEPT ![i] = RemoveAt(@, k)]
    /\ UNCHANGED <<otherLibVars, now, procVars, memVars, isLeader, matches, schedule,
                   participants, writes, electVars, regVars>>

\* A fire-and-forget Match.updateOne settles: applied, or rejected and logged.
WriteSettle(k) ==
    /\ k \in 1..Len(writes)
    /\ LET w == writes[k] IN
       \E ok \in BOOLEAN :
         matches' =
            IF ~ok THEN matches
            ELSE IF w.op = "cancel"
            THEN UpdateMatch(w.gid,
                    [matches[w.gid] EXCEPT !.status = "CANCELLED",
                                           !.cancelReason = "Admin reset",
                                           !.endedAt = TRUE])
            ELSE UpdateMatch(w.gid,
                    [matches[w.gid] EXCEPT !.status = "FINISHED",
                                           !.endedAt = TRUE])
    /\ writes' = RemoveAt(writes, k)
    /\ UNCHANGED <<libVars, now, procVars, memVars, isLeader, tasks, schedule, jobs,
                   participants, lastCall, electVars, regVars>>

\* ----------------------------------------------------------------- game loop
\* A terminal check that fires only when no sphere is left.
StatusAfterDraw(aliveOld, aliveNew) ==
    IF aliveOld > 1 /\ aliveNew < 1 THEN "FINISHED" ELSE "PLAYING"

\* A terminal check that fires whenever a sphere is lost.
StatusAfterAnyLoss(aliveOld, aliveNew) ==
    IF aliveNew < aliveOld THEN "FINISHED" ELSE "PLAYING"

\* The terminal check of updateServerPhysicsEngine.
StatusAfterTick(aliveOld, aliveNew) ==
    IF aliveOld > 1 /\ aliveNew <= 1 THEN "FINISHED" ELSE "PLAYING"

\* One iteration of the 50ms loop on a leader whose status is PLAYING: the
\* physics step filters `dead` spheres out of the set; on the change
\* PLAYING -> FINISHED the result is written to the Match row, not awaited.
GameLoop(i) ==
    /\ isLeader[i]
    /\ status[i] = "PLAYING"
    /\ \E dead \in 0..spheres[i] :
        LET aliveNew == spheres[i] - dead
            st == StatusAfterTick(spheres[i], aliveNew)
        IN /\ spheres' = [spheres EXCEPT ![i] = aliveNew]
           /\ status' = [status EXCEPT ![i] = st]
           /\ prevStatus' = [prevStatus EXCEPT ![i] = st]
           /\ IF prevStatus[i] = "PLAYING" /\ st = "FINISHED"
              THEN /\ Len(writes) < MaxWrites
                   /\ writes' = Append(writes, Write("finish", currentGameId[i]))
              ELSE writes' = writes
    /\ UNCHANGED <<libVars, now, procVars, nextGameTime, totalPlayers, currentGameId,
                   isLeader, tasks, matches, schedule, jobs, participants, lastCall, electVars, regVars>>

\* ------------------------------------------------------------ POST /schedule
\* POST /api/schedule with a valid admin token and a valid body, up to its
\* first await.
PostSchedule(i, t, n) ==
    /\ boot[i] # "redis"
    /\ Len(tasks[i]) < MaxTasks
    /\ tasks' = [tasks EXCEPT ![i] = Append(@, Task("pupsert", DEFAULT_GAME, n, t))]
    /\ UNCHANGED <<libVars, now, procVars, memVars, isLeader, matches, schedule, jobs,
                   participants, writes, lastCall, electVars, regVars>>

\* `await Schedule.findOneAndUpdate(..., { nextGameTime: new Date(nextGameTime),
\* totalPlayers }, { upsert: true })` settles; new Date(null) is the epoch.
PostUpsert(i, k) ==
    /\ k \in 1..Len(tasks[i])
    /\ tasks[i][k].pc = "pupsert"
    /\ LET t == tasks[i][k] IN
       \E ok \in BOOLEAN :
         IF ok
         THEN /\ schedule' = [exists |-> TRUE,
                              nextGameTime |-> IF t.time = NULL THEN EPOCH ELSE t.time,
                              totalPlayers |-> t.total]
              /\ tasks' = [tasks EXCEPT ![i][k].pc = "pcancel"]
         ELSE /\ schedule' = schedule
              /\ tasks' = [tasks EXCEPT ![i] = RemoveAt(@, k)]
    /\ UNCHANGED <<libVars, now, procVars, memVars, isLeader, matches, jobs, participants,
                   writes, lastCall, electVars, regVars>>

\* `updated`, the document the upsert of the handler returned, as the payload
\* of the 'scheduleUpdated' signal the handler emits before it answers.
Updated(t) == Signal(IF t.time = NULL THEN EPOCH ELSE t.time, t.total)

\* scheduleGameStart / cancelScheduledGames: `await agenda.cancel(...)` settles;
\* with no next time the handler emits 'scheduleUpdated' and answers.
PostCancelJobs(i, k) ==
    /\ k \in 1..Len(tasks[i])
    /\ tasks[i][k].pc = "pcancel"
    /\ LET t == tasks[i][k] IN
       \E ok \in BOOLEAN :
         IF ok
         THEN /\ jobs' = <<>>
              /\ tasks' = IF t.time = NULL
                          THEN [tasks EXCEPT ![i] = RemoveAt(@, k)]
                          ELSE [tasks EXCEPT ![i][k].pc = "psched"]
              /\ announced' = IF t.time = NULL THEN Updated(t) ELSE announced
         ELSE /\ jobs' = jobs
              /\ tasks' = [tasks EXCEPT ![i] = RemoveAt(@, k)]
              /\ announced' = announced
    /\ UNCHANGED <<otherLibVars, now, procVars, memVars, isLeader, matches, schedule,
                   participants, writes, lastCall, electVars, regVars>>

\* scheduleGameStart: `await agenda.schedule(date, 'start-game')` settles.
PostScheduleJob(i, k) ==
    /\ k \in 1..Len(tasks[i])
    /\ tasks[i][k].pc = "psched"
    /\ \E ok \in BOOLEAN :
         /\ jobs' = IF ok THEN Append(jobs, tasks[i][k].time) ELSE jobs
         /\ announced' = IF ok THEN Updated(tasks[i][k]) ELSE announced
    /\ tasks' = [tasks EXCEPT ![i] = RemoveAt(@, k)]
    /\ UNCHANGED <<otherLibVars, now, procVars, memVars, isLeader, matches, schedule,
                   participants, writes, lastCall, electVars, regVars>>


\* -------------------------------------------------------------- verification
\* REQUIRED_AMOUNT_ATOMIC for the default fee of 2 USDT.
REQUIRED_AMOUNT_ATOMIC == 2000000
\* `if (walletCount >= 8)`
WALLET_LIMIT == 8

Wallets == {"w1", "w2"}

\* A transaction hash is a sequence of characters.
LowerChar(c) == IF c = "A" THEN "a" ELSE IF c = "B" THEN "b" ELSE c

\* String.prototype.toLowerCase
ToLowerCase(h) == [k \in DOMAIN h |-> LowerChar(h[k])]

\* The identity without the lowercasing.
RawTxId(chain, h) == <<chain, h>>

\* normalizedTxId = `${chain}:${paymentTxHash.toLowerCase()}`
NormalizedTxId(chain, h) == <<chain, ToLowerCase(h)>>

\* What the chains hold. keys: the account keys of a Solana transaction;
\* source: the wallet the tokens left; received, delta: what the recipient got
\* and the source lost; jetton: TON only, the transaction is a Jetton transfer
\* of the configured master to the configured recipient.
NoTx ==
    [exists |-> FALSE, err |-> FALSE, keys |-> {}, source |-> "", received |-> 0,
     delta |-> 0, jetton |-> FALSE]

Payment(w, amount, jetton) ==
    [exists |-> TRUE, err |-> FALSE, keys |-> {w}, source |-> w,
     received |-> amount, delta |-> amount, jetton |-> jetton]

\* "a" and "c": w1 pays the fee (in Jettons on TON); "A" on Solana: another
\* transaction, w2 pays too little; "b" on TON: w2 sends plain TON, not
\* Jettons, to the recipient.
Ledger(chain, h) ==
    IF h \in {<<"a">>, <<"c">>} THEN Payment("w1", REQUIRED_AMOUNT_ATOMIC, TRUE)
    ELSE IF chain = "SOL" /\ h = <<"A">>
    THEN Payment("w2", REQUIRED_AMOUNT_ATOMIC - 1, TRUE)
    ELSE IF chain = "TON" /\ h = <<"b">> THEN Payment("w2", 0, FALSE)
    ELSE NoTx

\* The wallet is a party to the transaction the chain holds under the hash.
IsParty(chain, h, w) ==
    LET tx == Ledger(chain, h)
    IN tx.exists /\ (w \in tx.keys \/ w = tx.source)

\* verifySolanaTransaction after a cache miss; rpc: some endpoint answered.
SolanaChecks(h, w, rpc) ==
    LET tx == Ledger("SOL", h)
    IN /\ rpc
       /\ tx.exists
       /\ ~tx.err
       /\ w \in tx.keys
       /\ tx.received >= REQUIRED_AMOUNT_ATOMIC
       /\ w = tx.source
       /\ tx.delta >= REQUIRED_AMOUNT_ATOMIC

\* verifyViaJettonTransfers: "null" when no endpoint answered or no transfer
\* is listed, else whether a listed transfer matches.
VerifyViaJettonTransfers(h, w, v3) ==
    LET tx == Ledger("TON", h)
    IN IF ~v3 \/ ~tx.exists \/ ~tx.jetton THEN "null"
       ELSE IF tx.source = w /\ tx.received >= REQUIRED_AMOUNT_ATOMIC
       THEN "true" ELSE "false"

\* A fallback that takes every transaction as paid.
AssumePaid(h, v2) == TRUE

\* verifyViaGetTransactions: the recipient's account has a transaction with
\* this hash.
VerifyViaGetTransactions(h, v2) == v2 /\ Ledger("TON", h).exists

\* verifyTonTransaction after a cache miss.
TonChecks(h, w, v3, v2) ==
    LET jettonResult == VerifyViaJettonTransfers(h, w, v3)
    IN IF jettonResult # "null" THEN jettonResult = "true"
       ELSE VerifyViaGetTransactions(h, v2)

\* verifySolanaTransaction / verifyTonTransaction: the cache is keyed by the
\* hash; redis: the cache calls succeed, a failure being caught as false.
VerifyTransaction(chain, h, w, redis, rpc, v2) ==
    /\ redis
    /\ \/ h \in cache
       \/ IF chain = "SOL" THEN SolanaChecks(h, w, rpc) ELSE TonChecks(h, w, rpc, v2)

\* ------------------------------------------------------------ POST /register
\* The response of a request: HTTP status and error text.
Resp(code, error) == [code |-> code, error |-> error]

\* A request is answered; its slot keeps what it was.
Answer(r, code, error) ==
    reqs' = [reqs EXCEPT ![r].pc = "done", ![r].resp = Resp(code, error)]

\* POST /api/register with a valid body, on process i, up to
\* `await Participant.findOne({ normalizedTxId })`.
Register(r, i, username, walletAddress, chain, paymentTxHash) ==
    /\ reqs[r].pc = "free"
    /\ boot[i] = "up"
    /\ reqs' = [reqs EXCEPT ![r] =
            [NoReq EXCEPT !.pc = "tx", !.username = username,
                          !.walletAddress = walletAddress, !.chain = chain,
                          !.paymentTxHash = paymentTxHash,
                          !.gameId = currentGameId[i],
                          !.party = IsParty(chain, paymentTxHash, walletAddress)]]
    /\ UNCHANGED <<libVars, now, procVars, memVars, isLeader, tasks, matches, schedule,
                   jobs, participants, writes, lastCall, electVars, cache>>

\* Two requests carry the same transaction identity: the same chain and the
\* same hash up to the case of its letters.
SameTx(a, b) ==
    /\ a.chain = b.chain
    /\ Len(a.paymentTxHash) = Len(b.paymentTxHash)
    /\ \A n \in DOMAIN a.paymentTxHash :
          LowerChar(a.paymentTxHash[n]) = LowerChar(b.paymentTxHash[n])

\* `await Participant.findOne({ normalizedTxId })` settles.
RegisterTxCheck(r) ==
    /\ reqs[r].pc = "tx"
    /\ LET q == reqs[r]
           replay == \E p \in participants : SameTx(p, q)
       IN \E ok \in BOOLEAN :
         IF ~ok THEN Answer(r, 500, "Internal Server Error")
         ELSE IF \E p \in participants :
                    p.normalizedTxId = NormalizedTxId(q.chain, q.paymentTxHash)
         THEN reqs' = [reqs EXCEPT ![r].pc = "done", ![r].replay = replay,
                          ![r].resp = Resp(409, "Transaction hash already used")]
         ELSE reqs' = [reqs EXCEPT ![r].pc = "user", ![r].replay = replay]
    /\ UNCHANGED <<libVars, now, procVars, memVars, isLeader, tasks, matches, schedule,
                   jobs, participants, writes, lastCall, electVars, cache>>

\* `await Participant.findOne({ username, gameId })` settles.
RegisterUserCheck(r) ==
    /\ reqs[r].pc = "user"
    /\ LET q == reqs[r] IN
       \E ok \in BOOLEAN :
         IF ~ok THEN Answer(r, 500, "Internal Server Error")
         ELSE IF \E p \in participants :
                    p.username = q.username /\ p.gameId = q.gameId
         THEN Answer(r, 409, "Username already taken")
         ELSE reqs' = [reqs EXCEPT ![r].pc = "wallet"]
    /\ UNCHANGED <<libVars, now, procVars, memVars, isLeader, tasks, matches, schedule,
                   jobs, participants, writes, lastCall, electVars, cache>>

\* `await Participant.countDocuments({ walletAddress, gameId, CONFIRMED })`
\* settles.
RegisterWalletCheck(r) ==
    /\ reqs[r].pc = "wallet"
    /\ LET q == reqs[r]
           walletCount == Cardinality({p \in participants :
                              /\ p.walletAddress = q.walletAddress
                              /\ p.gameId = q.gameId
                              /\ p.status = "CONFIRMED"})
       IN \E ok \in BOOLEAN :
         IF ~ok THEN Answer(r, 500, "Internal Server Error")
         ELSE IF walletCount >= WALLET_LIMIT
         THEN Answer(r, 403, "Maximum 8 players per wallet limit reached")
         ELSE reqs' = [reqs EXCEPT ![r].pc = "save"]
    /\ UNCHANGED <<libVars, now, procVars, memVars, isLeader, tasks, matches, schedule,
                   jobs, participants, writes, lastCall, electVars, cache>>

\* The unique indexes of the Participant collection admit the document.
UniqueIndexesAdmit(q) ==
    \A p \in participants :
        /\ p.paymentTxHash # q.paymentTxHash
        /\ p.normalizedTxId # NormalizedTxId(q.chain, q.paymentTxHash)
        /\ ~(p.username = q.username /\ p.gameId = q.gameId)

\* `await newParticipant.save()` settles: the PENDING document is inserted, or
\* a unique index rejects it (error code 11000).
RegisterSave(r) ==
    /\ reqs[r].pc = "save"
    /\ LET q == reqs[r] IN
       \E ok \in BOOLEAN :
         IF ~ok
         THEN /\ Answer(r, 500, "Internal Server Error")
              /\ participants' = participants
         ELSE IF ~UniqueIndexesAdmit(q)
         THEN /\ Answer(r, 409, "Duplicate entry detected")
              /\ participants' = participants
         ELSE /\ reqs' = [reqs EXCEPT ![r].pc = "verify"]
              /\ participants' = participants \cup
                    {[id |-> r, username |-> q.username,
                      walletAddress |-> q.walletAddress, chain |-> q.chain,
                      paymentTxHash |-> q.paymentTxHash,
                      normalizedTxId |-> NormalizedTxId(q.chain, q.paymentTxHash),
                      gameId |-> q.gameId, status |-> "PENDING",
                      joinedAt |-> now]}
    /\ UNCHANGED <<libVars, now, procVars, memVars, isLeader, tasks, matches, schedule,
                   jobs, writes, lastCall, electVars, cache>>

\* The verification call settles when the cache calls succeed or not (redis),
\* some endpoint of the chain answers or none does (rpc), and some TonCenter
\* v2 endpoint answers or none does (v2): the answer, and the cache entry it
\* leaves.
VerificationSettles(r, redis, rpc, v2) ==
    /\ reqs[r].pc = "verify"
    /\ LET q == reqs[r]
           isValidTx == VerifyTransaction(q.chain, q.paymentTxHash,
                                          q.walletAddress, redis, rpc, v2)
       IN /\ reqs' = [reqs EXCEPT ![r].pc = "update", ![r].verified = isValidTx]
          /\ cache' = IF isValidTx THEN cache \cup {q.paymentTxHash} ELSE cache
    /\ UNCHANGED <<libVars, now, procVars, memVars, isLeader, tasks, matches, schedule,
                   jobs, participants, writes, lastCall, electVars>>

\* The verification call settles.
RegisterVerify(r) ==
    \E redis \in BOOLEAN, rpc \in BOOLEAN, v2 \in BOOLEAN :
        VerificationSettles(r, redis, rpc, v2)

\* An update whose filter matches every row.
SetEveryStatus(r, st) == {[p EXCEPT !.status = st] : p \in participants}

\* Participant.updateOne({ _id }, { status }): the row of this request.
SetParticipantStatus(r, st) ==
    {IF p.id = r THEN [p EXCEPT !.status = st] ELSE p : p \in participants}

\* `await Participant.updateOne(...)` settles: FAILED and 400, or CONFIRMED
\* and 201.
RegisterUpdate(r) ==
    /\ reqs[r].pc = "update"
    /\ LET q == reqs[r] IN
       \E ok \in BOOLEAN :
         IF ~ok
         THEN /\ Answer(r, 500, "Internal Server Error")
              /\ participants' = participants
         ELSE IF q.verified
         THEN /\ Answer(r, 201, "")
              /\ participants' = SetParticipantStatus(r, "CONFIRMED")
         ELSE /\ Answer(r, 400, "Transaction verification failed")
              /\ participants' = SetParticipantStatus(r, "FAILED")
    /\ UNCHANGED <<libVars, now, procVars, memVars, isLeader, tasks, matches, schedule,
                   jobs, writes, lastCall, electVars, cache>>

\* A catch block that only logs the error.
ElectCatchLogs(i) ==
    /\ epc' = [epc EXCEPT ![i] = "idle"]
    /\ UNCHANGED <<lock, lockTTL, isLeader>>

\* ------------------------------------------------------------ leader election
\* The catch block of the election callback.
ElectCatch(i) ==
    /\ isLeader' = [isLeader EXCEPT ![i] = FALSE]
    /\ epc' = [epc EXCEPT ![i] = "idle"]
    /\ UNCHANGED <<lock, lockTTL>>

\* The election interval fires: `await pubClient.set('game_engine_lock',
\* INSTANCE_ID, { PX: 2000, NX: true })` settles.
ElectAcquireSettles(i, ok) ==
    /\ pollDue[i]
    /\ epc[i] = "idle"
    /\ pollDue' = [pollDue EXCEPT ![i] = FALSE]
    /\ IF ~ok THEN ElectCatch(i)
       ELSE IF lock = "none"
       THEN /\ lock' = i
            /\ lockTTL' = LEASE_TTL
            /\ isLeader' = [isLeader EXCEPT ![i] = TRUE]
            /\ epc' = epc
       ELSE /\ epc' = [epc EXCEPT ![i] = "get"]
            /\ UNCHANGED <<lock, lockTTL, isLeader>>
    /\ UNCHANGED <<libVars, now, procVars, memVars, tasks, matches, schedule, jobs,
                   participants, writes, lastCall, regVars>>

\* The set settles, fulfilled or rejected.
ElectAcquire(i) == \E ok \in BOOLEAN : ElectAcquireSettles(i, ok)

\* `await pubClient.get('game_engine_lock')` settles.
ElectGetSettles(i, ok) ==
    /\ epc[i] = "get"
    /\ IF ~ok THEN ElectCatch(i)
       ELSE IF lock = i
       THEN /\ epc' = [epc EXCEPT ![i] = "renew"]
            /\ UNCHANGED <<lock, lockTTL, isLeader>>
       ELSE /\ isLeader' = [isLeader EXCEPT ![i] = FALSE]
            /\ epc' = [epc EXCEPT ![i] = "idle"]
            /\ UNCHANGED <<lock, lockTTL>>
    /\ UNCHANGED <<libVars, now, procVars, memVars, tasks, matches, schedule, jobs,
                   participants, writes, lastCall, pollDue, regVars>>

\* The get settles, fulfilled or rejected.
ElectGet(i) == \E ok \in BOOLEAN : ElectGetSettles(i, ok)

\* `await pubClient.pExpire('game_engine_lock', 2000)` settles: the key that
\* exists now gets the new TTL, whoever holds it; the reply is not looked at.
ElectRenewSettles(i, ok) ==
    /\ epc[i] = "renew"
    /\ IF ~ok THEN ElectCatch(i)
       ELSE /\ lockTTL' = IF lock = "none" THEN lockTTL ELSE LEASE_TTL
            /\ isLeader' = [isLeader EXCEPT ![i] = TRUE]
            /\ epc' = [epc EXCEPT ![i] = "idle"]
            /\ lock' = lock
    /\ UNCHANGED <<libVars, now, procVars, memVars, tasks, matches, schedule, jobs,
                   participants, writes, lastCall, pollDue, regVars>>

\* The pExpire settles, fulfilled or rejected.
ElectRenew(i) == \E ok \in BOOLEAN : ElectRenewSettles(i, ok)

\* One second passes: every interval has fired in the second that ends (a
\* callback still suspended at an await stays suspended), the lease loses a
\* second and Redis deletes the key when none is left.
ElectTick ==
    /\ \A i \in Instances : epc[i] = "idle" => ~pollDue[i]
    /\ pollDue' = [i \in Instances |-> TRUE]
    /\ lockTTL' = IF lockTTL > 0 THEN lockTTL - 1 ELSE 0
    /\ lock' = IF lockTTL <= 1 THEN "none" ELSE lock
    /\ UNCHANGED <<libVars, now, procVars, memVars, isLeader, tasks, matches, schedule,
                   jobs, participants, writes, lastCall, epc, regVars>>

\* ------------------------------------------------------------ CircuitBreaker
\* failureThreshold: 3
FAILURE_THRESHOLD == 3
\* resetTimeoutMs: 30000, one tick of the clock where the breaker is specified.
RESET_TIMEOUT == 1

\* A resume test that lets the call through only after the timestamp.
ResumeLate(b) == now > b.nextAttemptAt

\* `Date.now() >= this.nextAttemptAt`
ResumeDue(b) == now >= b.nextAttemptAt

\* onSuccess()
OnSuccess(b) ==
    [b EXCEPT !.failureCount = 0,
              !.state = IF b.state = "HALF_OPEN" THEN "CLOSED" ELSE b.state]

\* onFailure()
OnFailure(b) ==
    LET n == b.failureCount + 1
    IN IF n >= FAILURE_THRESHOLD
       THEN [state |-> "OPEN", failureCount |-> n,
             nextAttemptAt |-> now + RESET_TIMEOUT]
       ELSE [b EXCEPT !.failureCount = n]

\* execute(operation) up to `await operation()`: the breaker throws while it
\* is OPEN and the resume timestamp is ahead, else the operation is invoked.
\* The calls are numbered as they arrive.
Execute(c) ==
    /\ calls[c].pc = "new"
    /\ \A d \in CallIds : d < c => calls[d].pc # "new"
    /\ IF breaker.state = "OPEN" /\ ~ResumeDue(breaker)
       THEN /\ calls' = [calls EXCEPT ![c].pc = "done", ![c].result = "rejected"]
            /\ breaker' = breaker
       ELSE /\ calls' = [calls EXCEPT ![c].pc = "flight", ![c].invoked = @ + 1,
                                      ![c].probe = (breaker.state = "OPEN"),
                                      ![c].at = IF breaker.state = "OPEN"
                                                THEN "HALF_OPEN" ELSE breaker.state]
            /\ breaker' = IF breaker.state = "OPEN"
                          THEN [breaker EXCEPT !.state = "HALF_OPEN"]
                          ELSE breaker
    /\ UNCHANGED <<now, procVars, memVars, isLeader, tasks, matches, schedule,
                   jobs, participants, writes, lastCall, electVars, regVars,
                   settled, physVars, logVars, retryVars,
                   announced, authVars, loopVars>>

\* `await operation()` settles: onSuccess() and the result is returned, or
\* onFailure() and the error is thrown on.
Settle(c) ==
    /\ calls[c].pc = "flight"
    /\ \E ok \in BOOLEAN :
         /\ breaker' = IF ok THEN OnSuccess(breaker) ELSE OnFailure(breaker)
         /\ calls' = [calls EXCEPT ![c].pc = "done",
                                   ![c].result = IF ok THEN "ok" ELSE "fail"]
         /\ settled' = Append(settled, IF ok THEN "ok" ELSE "fail")
    /\ UNCHANGED <<now, procVars, memVars, isLeader, tasks, matches, schedule,
                   jobs, participants, writes, lastCall, electVars, regVars,
                   physVars, logVars, retryVars,
                   announced, authVars, loopVars>>

\* ----------------------------------------------------------------- withRetry
\* defaultRetryOpts of the verification calls.
BASE_DELAY_MS == 500
MAX_DELAY_MS == 2000
TIMEOUT_MS == 8000

Min(a, b) == IF a < b THEN a ELSE b

\* The retries never run out.
NeverExhausted(r) == FALSE

\* `if (attempt > maxRetries)`
Exhausted(r) == r.attempt > r.maxRetries

\* delay = Math.min(maxDelayMs, baseDelayMs * Math.pow(2, attempt - 1))
Delay(attempt) == Min(MAX_DELAY_MS, BASE_DELAY_MS * 2 ^ (attempt - 1))

\* jitteredDelay = Math.random() * delay, cut to milliseconds: the least and
\* the greatest value.
Jittered(delay) == {0, delay - 1}

\* The error of the first attempt is thrown in place of the one caught.
ThrownFirst(r, error) ==
    [r EXCEPT !.pc = "thrown", !.raised = Append(@, error),
              !.outcome = Append(r.raised, error)[1]]

\* `throw error`
Thrown(r, error) ==
    [r EXCEPT !.pc = "thrown", !.raised = Append(@, error), !.outcome = error]

\* `return await ...` with the value the attempt resolved to.
Returned(r, value) == [r EXCEPT !.pc = "returned", !.outcome = value]

\* The catch block with the error of the attempt: thrown on when the retries
\* are used up, else the jittered delay is slept.
Caught(r, error, jitter) ==
    IF Exhausted(r) THEN Thrown(r, error)
    ELSE [r EXCEPT !.pc = "delay", !.raised = Append(@, error),
                   !.waited = Append(@, jitter)]

\* withRetry(operation, options) is called: operation() is invoked for the
\* first attempt, and awaited alone or in a race with the timeout.
WithRetry(maxRetries, timeoutMs) ==
    /\ retry.pc = "idle"
    /\ retry' = [NoRetry EXCEPT !.pc = "attempt", !.maxRetries = maxRetries,
                                !.timeoutMs = timeoutMs, !.attempt = 1,
                                !.invoked = 1]
    /\ ops' = [ops EXCEPT ![1] = "pending"]
    /\ UNCHANGED <<now, procVars, memVars, isLeader, tasks, matches, schedule,
                   jobs, participants, writes, lastCall, electVars, regVars,
                   breakerVars, physVars, logVars,
                   announced, authVars, loopVars>>

\* The promise of attempt a settles. If withRetry still awaits it, the value
\* is returned or the error caught; after its timeout nothing listens.
OperationSettles(a) ==
    /\ a \in Attempts
    /\ ops[a] = "pending"
    /\ \E ok \in BOOLEAN :
         /\ ops' = [ops EXCEPT ![a] = IF ok THEN "ok" ELSE "fail"]
         /\ IF retry.pc = "attempt" /\ retry.attempt = a
            THEN IF ok THEN retry' = Returned(retry, <<"value", a>>)
                 ELSE \E jitter \in Jittered(Delay(a)) :
                        retry' = Caught(retry, <<"error", a>>, jitter)
            ELSE retry' = retry
    /\ UNCHANGED <<now, procVars, memVars, isLeader, tasks, matches, schedule,
                   jobs, participants, writes, lastCall, electVars, regVars,
                   breakerVars, physVars, logVars,
                   announced, authVars, loopVars>>

\* The timer of withTimeout fires before the attempt has settled: the race
\* rejects with the timeout error, and the operation is left running.
TimeoutFires ==
    /\ retry.pc = "attempt"
    /\ retry.timeoutMs # 0
    /\ \E jitter \in Jittered(Delay(retry.attempt)) :
         retry' = Caught(retry, <<"timed out", retry.attempt>>, jitter)
    /\ UNCHANGED <<now, procVars, memVars, isLeader, tasks, matches, schedule,
                   jobs, participants, writes, lastCall, electVars, regVars,
                   breakerVars, physVars, logVars, ops,
                   announced, authVars, loopVars>>

\* The delay has been slept: withRetry(operation, options, attempt + 1)
\* invokes operation() again.
DelayEnds ==
    /\ retry.pc = "delay"
    /\ retry' = [retry EXCEPT !.pc = "attempt", !.attempt = @ + 1,
                              !.invoked = @ + 1]
    /\ ops' = [ops EXCEPT ![retry.attempt + 1] = "pending"]
    /\ UNCHANGED <<now, procVars, memVars, isLeader, tasks, matches, schedule,
                   jobs, participants, writes, lastCall, electVars, regVars,
                   breakerVars, physVars, logVars,
                   announced, authVars, loopVars>>

\* ------------------------------------------------------------ physics engine
\* Numbers are JavaScript numbers with fractions cut off: positions in px,
\* velocities in px/ms, times in ms, health in points. NAN is Number.NaN: it
\* spreads through arithmetic and makes every comparison false.
NAN == 999999
ARENA_WIDTH == 1200
\* `const radius = 25`, also the mass
RADIUS == 25
\* The 50ms interval of the game loop.
FRAME_MS == 50
\* health: 100
FULL_HEALTH == 100

IsNaN(a) == a = NAN
Add(a, b) == IF IsNaN(a) \/ IsNaN(b) THEN NAN ELSE a + b
Sub(a, b) == IF IsNaN(a) \/ IsNaN(b) THEN NAN ELSE a - b
Mul(a, b) == IF IsNaN(a) \/ IsNaN(b) THEN NAN ELSE a * b
Lt(a, b) == ~IsNaN(a) /\ ~IsNaN(b) /\ a < b
Le(a, b) == ~IsNaN(a) /\ ~IsNaN(b) /\ a <= b
Abs(a) == IF IsNaN(a) THEN NAN ELSE IF a < 0 THEN -a ELSE a

\* a * n / d for d > 0, the fraction cut off.
Scale(a, n, d) ==
    IF IsNaN(a) THEN NAN
    ELSE IF a * n >= 0 THEN (a * n) \div d ELSE -((-(a * n)) \div d)

\* a / b where b is 0 or |a|: 0 / 0 is NaN.
Div(a, b) ==
    IF IsNaN(a) \/ IsNaN(b) \/ b = 0 THEN NAN
    ELSE IF a >= 0 THEN a \div b ELSE -((-a) \div b)

\* Math.pow(FRICTION, dt / (1000 / 60)) in thousandths, FRICTION = 0.995.
FrictionPermille(dt) ==
    IF dt = 0 THEN 1000
    ELSE IF dt = FRAME_MS THEN 985
    ELSE IF dt = 2 * FRAME_MS THEN 970
    ELSE IF dt = -FRAME_MS THEN 1015
    ELSE NAN

\* A sphere of the match, on the line y = ARENA_HEIGHT / 2 with vy = 0.
Sphere(id, x, vx, health) ==
    [id |-> id, x |-> x, vx |-> vx, health |-> health, damageTaken |-> 0,
     isEliminated |-> FALSE]

\* Movement
Move(sp, dt) ==
    [sp EXCEPT !.x = Add(sp.x, Mul(sp.vx, dt)),
               !.vx = IF IsNaN(FrictionPermille(dt)) THEN NAN
                      ELSE Scale(sp.vx, FrictionPermille(dt), 1000)]

\* Wall collisions, WALL_DAMPING = 0.7
Walls(sp) ==
    LET left == IF Lt(Sub(sp.x, RADIUS), 0)
                THEN [sp EXCEPT !.x = RADIUS, !.vx = Scale(sp.vx, -7, 10)]
                ELSE sp
    IN IF Lt(ARENA_WIDTH, Add(left.x, RADIUS))
       THEN [left EXCEPT !.x = ARENA_WIDTH - RADIUS, !.vx = Scale(left.vx, -7, 10)]
       ELSE left

\* The events of one iteration of the outer loop, in the order of emission.
EliminatedFirst(collisions, eliminated) == eliminated \o collisions

\* The events of one iteration of the outer loop: the 'collision' events of
\* the inner loop, then the 'eliminated' event of the sphere.
IterationEvents(collisions, eliminated) == collisions \o eliminated

\* s.vx -= impulseX / m1
ImpulseOnFirst(v, impulse, m) == Sub(v, Scale(impulse, 1, m))

\* The second sphere keeps its velocity.
NoImpulse(v, impulse, m) == v

\* s2.vx += impulseX / m2
ImpulseOnSecond(v, impulse, m) == Add(v, Scale(impulse, 1, m))

\* The body of the inner loop for the spheres at i < j: w.s the spheres, w.e
\* the 'collision' events of this iteration so far.
Pair(w, i, j) ==
    LET s1 == w.s[i]
        s2 == w.s[j]
        dx == Sub(s2.x, s1.x)
        dist == Abs(dx)
        minDist == 2 * RADIUS
    IN IF ~Lt(dist, minDist) THEN w
       ELSE
        LET overlap == minDist - dist
            dir == Div(dx, dist)
            x1 == Sub(s1.x, Scale(Mul(dir, overlap), 1, 2))
            x2 == Add(s2.x, Scale(Mul(dir, overlap), 1, 2))
            velAlongNormal == Mul(Sub(s2.vx, s1.vx), dir)
        IN IF ~Lt(velAlongNormal, 0)
           THEN [w EXCEPT !.s[i].x = x1, !.s[j].x = x2]
           ELSE
            \* jImpulse = -(1 + 0.8) * velAlongNormal / (1 / 25 + 1 / 25)
            LET jImpulse == Scale(-velAlongNormal, 45, 2)
                impulse == Mul(jImpulse, dir)
                v1 == ImpulseOnFirst(s1.vx, impulse, RADIUS)
                v2 == ImpulseOnSecond(s2.vx, impulse, RADIUS)
                impactForce == Abs(jImpulse)
                damage == Scale(impactForce, 5, 100)
            IN IF impactForce > 50
               THEN [s |-> [w.s EXCEPT
                        ![i] = [s1 EXCEPT !.x = x1, !.vx = v1,
                                          !.health = @ - damage,
                                          !.damageTaken = @ + damage],
                        ![j] = [s2 EXCEPT !.x = x2, !.vx = v2,
                                          !.health = @ - damage,
                                          !.damageTaken = @ + damage]],
                     e |-> Append(w.e,
                        [type |-> "collision", s1 |-> s1.id, s2 |-> s2.id,
                         target |-> 0, frame |-> frame,
                         left |-> <<s1.health - damage, s2.health - damage>>])]
               ELSE [w EXCEPT !.s[i].x = x1, !.s[i].vx = v1,
                              !.s[j].x = x2, !.s[j].vx = v2]

\* The inner loop from j on.
RECURSIVE Inner(_, _, _)
Inner(w, i, j) ==
    IF j > Len(w.s) THEN w ELSE Inner(Pair(w, i, j), i, j + 1)

\* One iteration of the outer loop: the walls, the inner loop, then the
\* health check of the sphere. w.e: the events of the step so far.
Iteration(w, i) ==
    LET walled == [s |-> [w.s EXCEPT ![i] = Walls(@)], e |-> <<>>]
        hit == Inner(walled, i, i + 1)
        out == Le(hit.s[i].health, 0)
    IN [s |-> IF out THEN [hit.s EXCEPT ![i].isEliminated = TRUE] ELSE hit.s,
        e |-> w.e \o IterationEvents(hit.e,
                IF out THEN <<[type |-> "eliminated", s1 |-> 0, s2 |-> 0,
                               target |-> hit.s[i].id, frame |-> frame,
                               left |-> <<>>]>>
                ELSE <<>>)]

\* The outer loop from i on.
RECURSIVE Outer(_, _)
Outer(w, i) ==
    IF i > Len(w.s) THEN w ELSE Outer(Iteration(w, i), i + 1)

\* A filter that keeps every sphere.
KeepAll(sp) == TRUE

\* s => !s.isEliminated
NotEliminated(sp) == ~sp.isEliminated

\* updateServerPhysicsEngine(dt, context): the spheres, the status and the
\* events it leaves.
UpdateServerPhysicsEngine(dt, currentSpheres, gameStatus) ==
    IF gameStatus # "PLAYING"
    THEN [s |-> currentSpheres, st |-> gameStatus, e |-> <<>>]
    ELSE
     LET moved == [k \in DOMAIN currentSpheres |-> Move(currentSpheres[k], dt)]
         looped == Outer([s |-> moved, e |-> <<>>], 1)
         aliveOld == Len(SelectSeq(currentSpheres, NotEliminated))
         nextSpheres == SelectSeq(looped.s, NotEliminated)
         aliveNew == Len(nextSpheres)
         st == StatusAfterTick(aliveOld, aliveNew)
         terminal ==
            IF st # "FINISHED" THEN <<>>
            ELSE IF aliveNew = 1
            THEN <<[type |-> "win", s1 |-> 0, s2 |-> 0,
                    target |-> nextSpheres[1].id, frame |-> frame,
                    left |-> <<>>]>>
            ELSE <<[type |-> "draw", s1 |-> 0, s2 |-> 0, target |-> 0,
                    frame |-> frame, left |-> <<>>]>>
     IN [s |-> nextSpheres, st |-> st, e |-> looped.e \o terminal]

\* Event types the onEvent callback of the game loop persists.
PERSISTED == {"eliminated", "win", "draw"}

\* The text stored with a persisted event.
EventText(ev) ==
    IF ev.type = "win" THEN <<"Winner", ev.target>>
    ELSE IF ev.type = "draw" THEN <<"Match ended in a draw">>
    ELSE <<ev.target, "eliminated">>

RECURSIVE OnEvent(_, _, _)
\* The onEvent callback over the events es of one step, base of them having
\* been emitted before: every event is emitted, and for a persisted type one
\* $push on the Match of gameId g is issued and not awaited. `n` is the place
\* of the event among all the emitted ones.
OnEvent(es, base, g) ==
    IF es = <<>> THEN <<>>
    ELSE (IF Head(es).type \in PERSISTED
          THEN <<[gid |-> g,
                  entry |-> [type |-> Head(es).type, text |-> EventText(Head(es)),
                             n |-> base + 1]]>>
          ELSE <<>>) \o OnEvent(Tail(es), base + 1, g)

\* The step is called with the spheres and the status of process i, and the
\* spheres are assigned back.
Step(i, dt) ==
    /\ frame < MaxFrames
    /\ frame' = frame + 1
    /\ LET r == UpdateServerPhysicsEngine(dt, arena, status[i])
       IN /\ arena' = r.s
          /\ status' = [status EXCEPT ![i] = r.st]
          /\ events' = events \o r.e
          /\ pushes' = pushes \o OnEvent(r.e, Len(events), currentGameId[i])
    /\ UNCHANGED <<now, procVars, prevStatus, spheres, nextGameTime,
                   totalPlayers, currentGameId, isLeader, tasks, matches,
                   schedule, jobs, participants, writes, lastCall, electVars,
                   regVars, breakerVars, eventLog, retryVars,
                   announced, authVars>>

\* The step alone, as a caller other than the game loop makes it.
PhysicsStep(i, dt) == Step(i, dt) /\ UNCHANGED loopVars

\* A loop that moves lastTime on every iteration.
LastTimeNow(i) == now

\* `if (!isLeader) return`: lastTime is left as it was.
LastTimeOfFollower(i) == lastTime[i]

\* One iteration of the 50ms loop of process i, the clock counting frames. A
\* follower returns at once. A leader takes dt = now - lastTime, moves
\* lastTime to now and, while PLAYING, steps the match with that dt.
LoopIteration(i) ==
    IF ~isLeader[i]
    THEN /\ lastTime' = [lastTime EXCEPT ![i] = LastTimeOfFollower(i)]
         /\ UNCHANGED <<now, procVars, memVars, isLeader, tasks, matches,
                        schedule, jobs, participants, writes, lastCall,
                        electVars, regVars, breakerVars, physVars, logVars,
                        retryVars, announced, stepDt, ledAt, authVars>>
    ELSE LET dt == (now - lastTime[i]) * FRAME_MS IN
         /\ lastTime' = [lastTime EXCEPT ![i] = now]
         /\ ledAt' = [ledAt EXCEPT ![i] = now]
         /\ IF status[i] = "PLAYING"
            THEN /\ Step(i, dt)
                 /\ stepDt' = [stepDt EXCEPT ![i] = dt]
            ELSE UNCHANGED <<now, procVars, memVars, isLeader, tasks, matches,
                             schedule, jobs, participants, writes, lastCall,
                             electVars, regVars, breakerVars, physVars,
                             logVars, retryVars, announced, stepDt, authVars>>
\* One Match.updateOne({gameId}, {$push: {events}}) settles, whichever was
\* issued first: the entry is appended to the events of the Match document of
\* that gameId if there is one, or the update is rejected and only logged.
PushSettle(k) ==
    /\ k \in 1..Len(pushes)
    /\ LET p == pushes[k] IN
       \E ok \in BOOLEAN :
         eventLog' =
            IF ok /\ p.gid \in GameIds /\ matches[p.gid].status # "none"
            THEN [eventLog EXCEPT ![p.gid] = Append(@, p.entry)]
            ELSE eventLog
    /\ pushes' = RemoveAt(pushes, k)
    /\ UNCHANGED <<now, procVars, memVars, isLeader, tasks, matches, schedule,
                   jobs, participants, writes, lastCall, electVars, regVars,
                   breakerVars, physVars, retryVars,
                   announced, authVars, loopVars>>

\* ------------------------------------------------------------ specification
\* totalPlayers of a POST /schedule body (validated to 2..2000).
PlayerTargets == {2, 3}
Usernames == {"u1", "u2"}
Chains == {"SOL", "TON"}
Hashes == {<<"a">>, <<"A">>, <<"b">>}

Slots == 1..MaxTasks
\* The health of a sphere at the start: full, or what one impact takes.
Healths == {5, FULL_HEALTH}
\* dt = now - lastTime: an interval, none, a clock set back, not a number.
Deltas == {FRAME_MS, 0, -FRAME_MS, NAN}

\* The steps of the start sequences suspended on process i.
StartSteps(i) ==
    \/ \E k \in Slots : StartSave(i, k)
    \/ \E k \in Slots : StartFind(i, k)
    \/ \E k \in Slots : StartPlaying(i, k)
    \/ \E k \in Slots : StartClear(i, k)
    \/ \E k \in Slots : StartCancel(i, k)

\* The steps of the reset handlers suspended on process i.
ResetSteps(i) ==
    \/ \E k \in Slots : ResetClear(i, k)
    \/ \E k \in Slots : ResetCancelJobs(i, k)

\* The steps of the POST /schedule handlers suspended on process i.
PostSteps(i) ==
    \/ \E k \in Slots : PostUpsert(i, k)
    \/ \E k \in Slots : PostCancelJobs(i, k)
    \/ \E k \in Slots : PostScheduleJob(i, k)

\* One process that is up and leads: admin start and reset commands, the start
\* sequence, the game loop and the writes it does not await.
Next ==
    \/ Tick
    \/ AdminStartGame("A")
    \/ StartSteps("A")
    \/ AdminResetGame("A")
    \/ ResetSteps("A")
    \/ \E k \in 1..MaxWrites : WriteSettle(k)
    \/ GameLoop("A")

Spec == InitUp /\ [][Next]_vars

\* A fleet of processes that are up and share the store.
NextFleet ==
    \/ Tick
    \/ \E i \in Instances : AdminStartGame(i)
    \/ \E i \in Instances : StartSteps(i)

SpecFleet == InitUp /\ [][NextFleet]_vars

\* One process from its start, through its boot chain, crashes and restarts.
NextBoot ==
    \/ Tick
    \/ BootRedis("A")
    \/ BootAgenda("A")
    \/ CrashRecovery("A")
    \/ InitialSync("A")
    \/ Crash("A")
    \/ AdminStartGame("A")
    \/ StartSteps("A")

SpecBoot == Init /\ [][NextBoot]_vars

\* One process that is up: schedules are posted, and the scheduled job starts
\* the match.
NextSched ==
    \/ Tick
    \/ \E n \in PlayerTargets : \E t \in {NULL, now + 1} : PostSchedule("A", t, n)
    \/ PostSteps("A")
    \/ \E k \in 1..Len(jobs) : StartGameJob("A", k)
    \/ StartSteps("A")

SpecSched == InitUp /\ [][NextSched]_vars

\* A POST /schedule for the next second with a player target has completed on
\* a process that is up.
InitScheduled ==
    \E n \in PlayerTargets :
        /\ now = 1
        /\ matches = [g \in GameIds |-> NoMatch]
        /\ schedule = [exists |-> TRUE, nextGameTime |-> 2, totalPlayers |-> n]
        /\ jobs = <<2>>
        /\ participants = {}
        /\ writes = <<>>
        /\ cache = {}
        /\ reqs = [r \in Reqs |-> NoReq]
        /\ lastCall = NoCall
        /\ life = [i \in Instances |-> 0]
        /\ crashes = 0
        /\ announced = Signal(2, n)
        /\ InitMemory
        /\ boot = [i \in Instances |-> "up"]
        /\ syncPending = [i \in Instances |-> FALSE]
        /\ isLeader = [i \in Instances |-> i = "A"]
        /\ lock = "A"
        /\ lockTTL = LEASE_TTL
        /\ pollDue = [i \in Instances |-> FALSE]

\* Players register while the schedule waits, then the scheduled job starts
\* the match.
NextJoin ==
    \/ Tick
    \/ \E k \in 1..Len(jobs) : StartGameJob("A", k)
    \/ StartSteps("A")
    \/ \E r \in Reqs, u \in Usernames, c \in Chains :
            Register(r, "A", u, "w1", c, <<"a">>)
    \/ \E r \in Reqs : RegisterTxCheck(r)
    \/ \E r \in Reqs : RegisterUserCheck(r)
    \/ \E r \in Reqs : RegisterWalletCheck(r)
    \/ \E r \in Reqs : RegisterSave(r)
    \/ \E r \in Reqs : RegisterVerify(r)
    \/ \E r \in Reqs : RegisterUpdate(r)

SpecJoin == InitScheduled /\ [][NextJoin]_vars

\* The scheduled job and admin commands both call startGameSequence.
NextStart ==
    \/ Tick
    \/ \E k \in 1..Len(jobs) : StartGameJob("A", k)
    \/ AdminStartGame("A")
    \/ StartSteps("A")

SpecStart == InitScheduled /\ [][NextStart]_vars

\* The election of a fleet of processes.
NextElect ==
    \/ ElectTick
    \/ \E i \in Instances : ElectAcquire(i)
    \/ \E i \in Instances : ElectGet(i)
    \/ \E i \in Instances : ElectRenew(i)

SpecElect == Init /\ [][NextElect]_vars

\* Registrations on a process that is up and idle.
NextReg ==
    \/ \E r \in Reqs, u \in Usernames, w \in Wallets, c \in Chains, h \in Hashes :
            Register(r, "A", u, w, c, h)
    \/ \E r \in Reqs : RegisterTxCheck(r)
    \/ \E r \in Reqs : RegisterUserCheck(r)
    \/ \E r \in Reqs : RegisterWalletCheck(r)
    \/ \E r \in Reqs : RegisterSave(r)
    \/ \E r \in Reqs : RegisterVerify(r)
    \/ \E r \in Reqs : RegisterUpdate(r)

SpecReg == InitUp /\ [][NextReg]_vars

\* The registrations of one wallet that were confirmed one after the other
\* before: one short of the limit, each with a payment and a username of its own.
EarlierNames == <<"p1", "p2", "p3", "p4", "p5", "p6", "p7">>

EarlierRows ==
    {[id |-> MaxReqs + n, username |-> EarlierNames[n], walletAddress |-> "w1",
      chain |-> "SOL", paymentTxHash |-> <<EarlierNames[n]>>,
      normalizedTxId |-> NormalizedTxId("SOL", <<EarlierNames[n]>>),
      gameId |-> DEFAULT_GAME, status |-> "CONFIRMED", joinedAt |-> EPOCH] :
        n \in 1..(WALLET_LIMIT - 1)}

InitWallet ==
    /\ now = 1
    /\ matches = [g \in GameIds |-> NoMatch]
    /\ schedule = NoSchedule
    /\ jobs = <<>>
    /\ participants = EarlierRows
    /\ writes = <<>>
    /\ cache = {}
    /\ reqs = [r \in Reqs |-> NoReq]
    /\ lastCall = NoCall
    /\ life = [i \in Instances |-> 0]
    /\ crashes = 0
    /\ announced = NoSignal
    /\ InitMemory
    /\ boot = [i \in Instances |-> "up"]
    /\ syncPending = [i \in Instances |-> FALSE]
    /\ isLeader = [i \in Instances |-> i = "A"]
    /\ lock = "A"
    /\ lockTTL = LEASE_TTL
    /\ pollDue = [i \in Instances |-> FALSE]

\* A match with the given spheres is PLAYING on process A.
InitMatchLedBy(initial, leader) ==
    /\ now = 1
    /\ matches = [g \in GameIds |->
                    IF g = 1 THEN [NoMatch EXCEPT !.status = "PLAYING",
                                                  !.trigger = "manual"]
                    ELSE NoMatch]
    /\ schedule = NoSchedule
    /\ jobs = <<>>
    /\ participants = {}
    /\ writes = <<>>
    /\ cache = {}
    /\ reqs = [r \in Reqs |-> NoReq]
    /\ lastCall = NoCall
    /\ life = [i \in Instances |-> 0]
    /\ crashes = 0
    /\ announced = NoSignal
    /\ InitLog
    /\ InitRetry
    /\ InitLoop
    /\ InitAuth
    /\ status = [i \in Instances |-> IF i = "A" THEN "PLAYING" ELSE "IDLE"]
    /\ prevStatus = [i \in Instances |-> IF i = "A" THEN "PLAYING" ELSE "IDLE"]
    /\ nextGameTime = [i \in Instances |-> NULL]
    /\ totalPlayers = [i \in Instances |-> DEFAULT_TOTAL_PLAYERS]
    /\ currentGameId = [i \in Instances |-> IF i = "A" THEN 1 ELSE DEFAULT_GAME]
    /\ tasks = [i \in Instances |-> <<>>]
    /\ epc = [i \in Instances |-> "idle"]
    /\ InitBreaker
    /\ arena = initial
    /\ spheres = [i \in Instances |-> IF i = "A" THEN Len(initial) ELSE 0]
    /\ events = <<>>
    /\ frame = 0
    /\ boot = [i \in Instances |-> "up"]
    /\ syncPending = [i \in Instances |-> FALSE]
    /\ isLeader = [i \in Instances |-> i = leader]
    /\ lock = leader
    /\ lockTTL = LEASE_TTL
    /\ pollDue = [i \in Instances |-> FALSE]

\* The match is PLAYING on process A, which holds the lease.
InitMatchWith(initial) == InitMatchLedBy(initial, "A")

\* A match of two or three spheres is PLAYING on process A: the first moves
\* right towards the others, which move left and overlap; each sphere has
\* full health or is about to fall.
InitMatch ==
    \E h1, h2, h3 \in Healths, n \in 2..3 :
        InitMatchWith(SubSeq(<<Sphere(1, 100, 7, h1), Sphere(2, 830, -7, h2),
                               Sphere(3, 860, -7, h3)>>, 1, n))

\* Where the first sphere of a pair is, how far to its right the second is,
\* and the velocities of the two: vx = (Math.random() - 0.5) * 15.
Positions == {100, 480}
Gaps == {0, 30, 730}
Speeds == {-7, 0, 7}

\* A match of two spheres of full health is PLAYING on process A: at the same
\* place, overlapping, or apart.
InitPair ==
    \E x \in Positions, gap \in Gaps, v1, v2 \in Speeds :
        InitMatchWith(<<Sphere(1, x, v1, FULL_HEALTH),
                        Sphere(2, x + gap, v2, FULL_HEALTH)>>)

\* The physics step is called with any delta time.
NextPhysics == \E dt \in Deltas : PhysicsStep("A", dt)

SpecPhysics == InitMatch /\ [][NextPhysics]_vars

SpecPair == InitPair /\ [][NextPhysics]_vars

\* The game loop of process A runs while frames pass and its election cycles
\* succeed or fail.
NextLoop ==
    \/ Tick
    \/ LoopIteration("A")
    \/ ElectTick
    \/ ElectAcquire("A")
    \/ ElectGet("A")
    \/ ElectRenew("A")

SpecLoop == InitMatch /\ [][NextLoop]_vars

\* A match of two spheres is PLAYING on process A, where startGameSequence
\* ran, and the lease is held by A or by the other process.
InitFleetMatch ==
    \E leader \in Instances :
        InitMatchLedBy(<<Sphere(1, 100, 7, FULL_HEALTH),
                         Sphere(2, 830, -7, FULL_HEALTH)>>, leader)

\* The election interval and the game loop interval of every process.
NextIntervals ==
    \/ Tick
    \/ ElectTick
    \/ \E i \in Instances : ElectAcquire(i)
    \/ \E i \in Instances : ElectGet(i)
    \/ \E i \in Instances : ElectRenew(i)
    \/ \E i \in Instances : LoopIteration(i)

\* The states in which an iteration of the loop of process i changes
\* something: ENABLED <<LoopIteration(i)>>_vars, written out.
LoopEnabled(i) ==
    /\ isLeader[i]
    /\ IF status[i] = "PLAYING" THEN frame < MaxFrames
       ELSE lastTime[i] # now \/ ledAt[i] # now

\* Weak fairness of the loop of process i, WF_vars(LoopIteration(i)), with
\* its enabling condition written out.
LoopFair(i) ==
    []<>(~LoopEnabled(i)) \/ []<><<LoopIteration(i)>>_vars

\* setInterval fires each callback again and again, and every await of an
\* election callback settles.
FairIntervals ==
    /\ WF_vars(ElectTick)
    /\ \A i \in Instances :
          /\ WF_vars(ElectAcquire(i))
          /\ WF_vars(ElectGet(i))
          /\ WF_vars(ElectRenew(i))
          /\ LoopFair(i)

SpecIntervals == InitFleetMatch /\ [][NextIntervals]_vars /\ FairIntervals

\* ---------------------------------------------------------------- admin token
\* What the auth actions leave alone.
notAuthVars == <<now, procVars, memVars, isLeader, tasks, matches, schedule,
                 jobs, participants, writes, lastCall, electVars, regVars,
                 breakerVars, physVars, logVars, retryVars, loopVars, announced>>

\* A request arrives with the signed, unexpired token t: POST /admin/refresh,
\* POST /admin/logout, or a socket command (adminStartGame, adminResetGame).
\* jwt.verify passes and `await pubClient.get('blacklist:<jti>')` is issued.
AdminRequest(q, kind, t) ==
    /\ auths[q].pc = "free"
    /\ t \in signed
    /\ auths' = [auths EXCEPT ![q] =
            [NoAuth EXCEPT !.pc = "verify", !.kind = kind, !.jti = t,
                           !.late = (t \in spent)]]
    /\ UNCHANGED <<blacklist, signed, spent, notAuthVars>>

\* if (isBlacklisted) throw new Error('Token has been revoked/logged out')
Revoked(isBlacklisted) == isBlacklisted

\* The answer when verifyAdminToken throws: 401 from the refresh, 200 from the
\* logout ("already logged out or expired"), false to the socket handler.
Rejected(kind) ==
    IF kind = "refresh" THEN "401"
    ELSE IF kind = "logout" THEN "success"
    ELSE "refused"

\* `await pubClient.get(...)` of verifyAdminToken settles, fulfilled or
\* rejected. The socket handler runs its command on true; the refresh and the
\* logout go on to `await pubClient.setEx('blacklist:<jti>', ttl, 'true')`.
VerifySettles(q, ok) ==
    /\ auths[q].pc = "verify"
    /\ LET a == auths[q]
           thrown == ~ok \/ Revoked(a.jti \in blacklist)
       IN /\ auths' = [auths EXCEPT ![q] =
                IF thrown
                THEN [a EXCEPT !.pc = "done", !.answer = Rejected(a.kind)]
                ELSE IF a.kind = "command"
                THEN [a EXCEPT !.pc = "done", !.answer = "accepted"]
                ELSE [a EXCEPT !.pc = "blacklist"]]
          /\ spent' = IF thrown /\ a.kind = "logout"
                      THEN spent \cup {a.jti} ELSE spent
    /\ UNCHANGED <<blacklist, signed, notAuthVars>>

VerifyAdminToken(q) == \E ok \in BOOLEAN : VerifySettles(q, ok)

\* `await pubClient.setEx(...)` settles. Fulfilled: the logout answers
\* success, the refresh signs a new token and answers with it. Rejected: the
\* outer catch answers 500.
BlacklistSettles(q, ok) ==
    /\ auths[q].pc = "blacklist"
    /\ Cardinality(signed) < MaxTokens \/ auths[q].kind = "logout" \/ ~ok
    /\ LET a == auths[q] IN
       IF ~ok
       THEN /\ auths' = [auths EXCEPT ![q] = [a EXCEPT !.pc = "done", !.answer = "500"]]
            /\ UNCHANGED <<blacklist, signed, spent>>
       ELSE /\ blacklist' = blacklist \cup {a.jti}
            /\ spent' = spent \cup {a.jti}
            /\ IF a.kind = "refresh"
               THEN /\ signed' = signed \cup {Cardinality(signed) + 1}
                    /\ auths' = [auths EXCEPT ![q] =
                            [a EXCEPT !.pc = "done", !.answer = "token"]]
               ELSE /\ signed' = signed
                    /\ auths' = [auths EXCEPT ![q] =
                            [a EXCEPT !.pc = "done", !.answer = "success"]]
    /\ UNCHANGED notAuthVars

BlacklistToken(q) == \E ok \in BOOLEAN : BlacklistSettles(q, ok)

\* Requests with admin tokens on processes that are up.
NextAuth ==
    \/ \E q \in Auths, t \in 1..MaxTokens :
            \E kind \in {"refresh", "logout", "command"} : AdminRequest(q, kind, t)
    \/ \E q \in Auths : VerifyAdminToken(q)
    \/ \E q \in Auths : BlacklistToken(q)

SpecAuth == InitUp /\ [][NextAuth]_vars

\* The game loop steps the match frame by frame while the event updates it
\* issued settle in any order.
NextLog ==
    \/ PhysicsStep("A", FRAME_MS)
    \/ \E k \in 1..MaxPushes : PushSettle(k)

SpecLog == InitMatch /\ [][NextLog]_vars

\* One withRetry call with or without a timeout per attempt: the attempts
\* settle or never do, and the timers of the event loop fire.
NextRetry ==
    \/ \E maxRetries \in 0..MaxRetries, timeoutMs \in {0, TIMEOUT_MS} :
          WithRetry(maxRetries, timeoutMs)
    \/ \E a \in Attempts : OperationSettles(a)
    \/ TimeoutFires
    \/ DelayEnds

SpecRetry ==
    InitUp /\ [][NextRetry]_vars /\ WF_vars(TimeoutFires) /\ WF_vars(DelayEnds)

\* Concurrent execute() calls on one breaker while the clock runs.
NextBreaker ==
    \/ Tick
    \/ \E c \in CallIds : Execute(c)
    \/ \E c \in CallIds : Settle(c)

SpecBreaker == InitUp /\ [][NextBreaker]_vars

\* The wallet goes on registering, each request with a payment of its own.
NextWallet ==
    \/ \E r \in Reqs, u \in Usernames, c \in Chains, h \in {<<"a">>, <<"c">>} :
            Register(r, "A", u, "w1", c, h)
    \/ \E r \in Reqs : RegisterTxCheck(r)
    \/ \E r \in Reqs : RegisterUserCheck(r)
    \/ \E r \in Reqs : RegisterWalletCheck(r)
    \/ \E r \in Reqs : RegisterSave(r)
    \/ \E r \in Reqs : RegisterVerify(r)
    \/ \E r \in Reqs : RegisterUpdate(r)

SpecWallet == InitWallet /\ [][NextWallet]_vars

\* ===================================================================== claims

\* The Match rows a round is in progress on.
ActiveMatches == {g \in GameIds : matches[g].status \in {"GENERATING", "PLAYING"}}

\* C1 - in every reachable state, over all processes sharing the store, at
\* most one Match row has status GENERATING or PLAYING.
C1_OneActiveMatch == Cardinality(ActiveMatches) <= 1

\* A start() call of process i: an adminStartGame command or a firing of the
\* start-game job.
StartCalled(i) ==
    \/ AdminStartGame(i)
    \/ \E k \in 1..Len(jobs) : StartGameJob(i, k)

\* C2 - a start() call issued while the status is GENERATING or PLAYING
\* creates no Match row and starts no sequence that would, leaves the current
\* gameId and the sphere set as they are, and returns (blocked) without error.
C2_BlockedStartChangesNothing ==
    [][\A i \in Instances :
        (status[i] \in {"GENERATING", "PLAYING"} /\ StartCalled(i)) =>
            /\ matches' = matches
            /\ tasks' = tasks
            /\ currentGameId' = currentGameId
            /\ spheres' = spheres
            /\ status' = status
            /\ lastCall'.ret = "blocked"]_vars

\* C2 witness: the job has fired while an admin start was generating, and
\* was blocked.
C2_Witness ==
    /\ lastCall = [Call("A", "blocked") EXCEPT !.by = "job"]
    /\ status["A"] = "GENERATING"
    /\ \E k \in DOMAIN tasks["A"] : tasks["A"][k].trigger = "admin"

\* C3 - leader exclusivity: at no time do two instances both have their
\* local isLeader flag true.
C3_LeaderExclusive ==
    \A i, j \in Instances : (isLeader[i] /\ isLeader[j]) => i = j

\* C4 - when the scheduled job starts a match with target N and k <= N
\* confirmed participants waiting, the Match that reaches PLAYING holds exactly
\* those k humans and N - k bots, and it is the only Match created.
C4_ScheduledSnapshot ==
    \A g \in GameIds :
        (matches[g].status = "PLAYING" /\ matches[g].trigger = "job"
            /\ matches[g].before <= matches[g].target) =>
            /\ Len(matches[g].humans) = matches[g].before
            /\ matches[g].bots = matches[g].target - matches[g].before
            /\ \A o \in GameIds : o # g => matches[o].status = "none"

\* The Participant row request r created, if any.
RowOf(r) == {p \in participants : p.id = r}

\* C5 - replay prevention: of the registration attempts with the same
\* transaction identity, whatever the casing of the hash, at most one ever
\* has a Participant row, whatever the status of that row; every other attempt
\* is answered 409 and creates nothing (500 if one of its own store calls
\* failed), and one that arrives when the row is there is told the hash is
\* already used.
C5_ReplayPrevention ==
    /\ \A p, q \in participants : SameTx(p, q) => p = q
    /\ \A r1, r2 \in Reqs :
        (r1 # r2 /\ reqs[r1].pc # "free" /\ reqs[r2].pc = "done"
            /\ SameTx(reqs[r1], reqs[r2]) /\ RowOf(r1) # {}) =>
            /\ RowOf(r2) = {}
            /\ reqs[r2].resp.code \in {409, 500}
    /\ \A r \in Reqs :
        reqs[r].replay =>
            /\ reqs[r].pc = "done"
            /\ reqs[r].resp = Resp(409, "Transaction hash already used")

\* C5 witness: a hash was first submitted in upper case and its row ended
\* FAILED; the same hash in lower case was then refused as already used.
C5_Witness ==
    \E r1, r2 \in Reqs :
        /\ reqs[r1].paymentTxHash = <<"A">>
        /\ reqs[r2].paymentTxHash = <<"a">>
        /\ \E p \in RowOf(r1) : p.status = "FAILED"
        /\ reqs[r2].pc = "done"
        /\ reqs[r2].resp = Resp(409, "Transaction hash already used")

\* C6 - sender binding: a verification answers true only if the expected
\* wallet is a party to the transaction.
C6_SenderBinding ==
    \A r \in Reqs : reqs[r].verified => reqs[r].party

\* The status changes a Match row may make.
MatchTransitions ==
    {<<"none", "GENERATING">>, <<"GENERATING", "PLAYING">>,
     <<"PLAYING", "FINISHED">>, <<"GENERATING", "CANCELLED">>,
     <<"PLAYING", "CANCELLED">>}

\* C7 - every status change of a Match row is its creation as GENERATING or
\* one of GENERATING->PLAYING, PLAYING->FINISHED, GENERATING->CANCELLED,
\* PLAYING->CANCELLED; a FINISHED or CANCELLED row never changes status again.
C7_MatchTransitionsOnly ==
    [][\A g \in GameIds :
        matches'[g].status # matches[g].status =>
            <<matches[g].status, matches'[g].status>> \in MatchTransitions]_vars

\* C8 - when a start sequence that failed returns, the in-memory status is
\* IDLE and the Match row of its round, if it was created, is CANCELLED with a
\* reason; stated for the returns whose best-effort CANCELLED update was
\* applied, a rejected one being swallowed by design.
C8_FailedStartCleansUp ==
    [][\A i \in Instances, k \in Slots :
        StartCancelSettles(i, k, TRUE) =>
            /\ status'[i] = "IDLE"
            /\ LET row == matches'[tasks[i][k].round]
               IN row.status = "none"
                  \/ (row.status = "CANCELLED" /\ row.cancelReason # "")]_vars

\* C9 - no Match is created by a process before its crash recovery update has
\* run, and the recovery update of a process lifetime never cancels a Match
\* that lifetime created.
C9_RecoveryBeforeStart ==
    \A g \in GameIds :
        matches[g].status # "none" =>
            /\ ~matches[g].preRecovery
            /\ matches[g].restartedBy # matches[g].creator

\* C10 - once a reset has completed with no start() accepted since it began,
\* and until the next start() call, the status is IDLE, the sphere set is empty, the schedule has no next time, no
\* start-game job is pending and no Match is left GENERATING or PLAYING by
\* anything but a cancel still in flight.
C10_ResetHolds ==
    lastCall.ret = "reset" =>
        LET i == lastCall.inst
        IN /\ status[i] = "IDLE"
           /\ spheres[i] = 0
           /\ nextGameTime[i] = NULL
           /\ schedule.nextGameTime = NULL
           /\ jobs = <<>>
           /\ \A g \in ActiveMatches :
                \E n \in DOMAIN writes : writes[n] = Write("cancel", g)

\* C11 - wallet limit: for every wallet and game, the CONFIRMED Participant
\* rows never exceed the limit of 8, whatever the interleaving of the
\* registrations of that wallet.
C11_WalletLimit ==
    \A w \in Wallets, g \in {DEFAULT_GAME} \cup GameIds :
        Cardinality({p \in participants :
            p.walletAddress = w /\ p.gameId = g /\ p.status = "CONFIRMED"})
                <= WALLET_LIMIT

\* C12 - every Participant row is created PENDING and changes status at most
\* once, to CONFIRMED or FAILED, to CONFIRMED exactly when the verification
\* of its request answered true; a row is never removed, and a CONFIRMED or
\* FAILED row never changes status again.
C12_StatusOnce ==
    [][/\ \A q \in participants' :
            (\A p \in participants : p.id # q.id) => q.status = "PENDING"
       /\ \A p \in participants :
            \E q \in participants' :
                /\ q.id = p.id
                /\ q.status # p.status =>
                      /\ p.status = "PENDING"
                      /\ q.status \in {"CONFIRMED", "FAILED"}
                      /\ (q.status = "CONFIRMED") = reqs[p.id].verified]_vars

\* C12 witness: one request's row has been FAILED and is still FAILED when
\* another request's row becomes CONFIRMED.
C12_Witness ==
    \E p, q \in participants :
        /\ p.status = "FAILED" /\ ~reqs[p.id].verified /\ reqs[p.id].pc = "done"
        /\ q.status = "CONFIRMED" /\ reqs[q.id].verified /\ reqs[q.id].pc = "done"

\* The CONFIRMED participants of round g after the step.
ConfirmedAfter(g) ==
    {p \in participants' : p.gameId = g /\ p.status = "CONFIRMED"}

\* C13 - snapshot: when the Match of a round becomes PLAYING, the CONFIRMED
\* participants of the round plus the bots of the snapshot number the
\* totalPlayers target, and every CONFIRMED participant of the round is among
\* the humans of the snapshot.
C13_SnapshotComplete ==
    [][\A g \in GameIds :
        (matches[g].status # "PLAYING" /\ matches'[g].status = "PLAYING") =>
            /\ Cardinality(ConfirmedAfter(g)) + matches'[g].bots
                    = matches'[g].totalPlayers
            /\ \A p \in ConfirmedAfter(g) :
                 \E n \in DOMAIN matches'[g].humans :
                    matches'[g].humans[n] = p.username]_vars

\* The last n operations that settled all failed.
LastFailed(s, n) ==
    /\ Len(s) >= n
    /\ \A k \in (Len(s) - n + 1)..Len(s) : s[k] = "fail"

\* C14 - circuit breaker with failureThreshold 3: when the third consecutive
\* failed call settles the breaker is OPEN with the resume timestamp
\* resetTimeoutMs after that time; every call made before the resume timestamp
\* the breaker holds throws without invoking its operation and leaves the
\* breaker as it is; a call made at or after it invokes its operation exactly
\* once, and the first such call, finding the breaker OPEN, is the probe of
\* HALF_OPEN.
C14_Backoff ==
    [][/\ (Len(settled') > Len(settled) /\ LastFailed(settled', 3)) =>
            /\ breaker'.state = "OPEN"
            /\ breaker'.nextAttemptAt = now + RESET_TIMEOUT
       /\ \A c \in CallIds :
            Execute(c) =>
                IF now < breaker.nextAttemptAt
                THEN /\ calls'[c].pc = "done"
                     /\ calls'[c].result = "rejected"
                     /\ calls'[c].invoked = 0
                     /\ breaker' = breaker
                ELSE /\ calls'[c].pc = "flight"
                     /\ calls'[c].invoked = 1
                     /\ breaker.state = "OPEN" =>
                            /\ calls'[c].probe
                            /\ breaker'.state = "HALF_OPEN"]_vars

\* C14 witness: three calls failed in a row, the next was rejected before the
\* resume timestamp, and the one after it went through as the probe.
C14_Witness ==
    /\ Len(settled) >= 3
    /\ \A k \in 1..3 : settled[k] = "fail"
    /\ \E c, d \in CallIds :
        /\ c < d
        /\ calls[c].result = "rejected" /\ calls[c].invoked = 0
        /\ calls[d].probe /\ calls[d].invoked = 1
    /\ breaker.state = "HALF_OPEN"

\* The operations invoked while the breaker was HALF_OPEN and not yet settled.
ProbesInFlight ==
    {c \in CallIds : calls[c].pc = "flight" /\ calls[c].at = "HALF_OPEN"}

\* C15 - while the breaker is HALF_OPEN, an execute() call that arrives while
\* the probe has not settled does not invoke its operation, so at most one
\* operation let through in HALF_OPEN is in flight.
C15_SingleProbe ==
    [][/\ \A c \in CallIds :
            (Execute(c) /\ breaker.state = "HALF_OPEN" /\ ProbesInFlight # {}) =>
                calls'[c].invoked = 0
       /\ Cardinality({c \in CallIds :
            calls'[c].pc = "flight" /\ calls'[c].at = "HALF_OPEN"}) <= 1]_vars

\* C16 - whatever the interleaving of the calls, when the probe settles while
\* the breaker is HALF_OPEN: failed, the breaker is OPEN again with a new
\* resume timestamp; succeeded, it is CLOSED with the failure counter at 0.
C16_ProbeDecides ==
    [][\A c \in CallIds :
        (calls[c].probe /\ calls[c].pc = "flight" /\ calls'[c].pc = "done"
            /\ breaker.state = "HALF_OPEN") =>
            IF calls'[c].result = "fail"
            THEN /\ breaker'.state = "OPEN"
                 /\ breaker'.nextAttemptAt = now + RESET_TIMEOUT
            ELSE /\ breaker'.state = "CLOSED"
                 /\ breaker'.failureCount = 0]_vars

\* The events the step emitted.
Emitted == SubSeq(events', Len(events) + 1, Len(events'))

IsTerminal(ev) == ev.type \in {"win", "draw"}

\* The step has run with n spheres alive before it and m after it.
Tick_(n, m) ==
    /\ \E dt \in Deltas : PhysicsStep("A", dt)
    /\ Len(SelectSeq(arena, NotEliminated)) = n
    /\ Len(SelectSeq(arena', NotEliminated)) = m

\* C17 - terminal check: a step with more than one sphere alive before it and
\* at most one after it sets the status FINISHED and emits exactly one
\* terminal event, 'win' naming the survivor when one sphere survives, 'draw'
\* when none does; over the whole match at most one terminal event is emitted.
C17_TerminalCheck ==
    [][/\ \A n \in 2..3, m \in 0..1 :
            Tick_(n, m) =>
                /\ status'["A"] = "FINISHED"
                /\ Len(SelectSeq(Emitted, IsTerminal)) = 1
                /\ \A k \in DOMAIN Emitted :
                    IsTerminal(Emitted[k]) =>
                        IF m = 1
                        THEN /\ Emitted[k].type = "win"
                             /\ Emitted[k].target = arena'[1].id
                        ELSE Emitted[k].type = "draw"
       /\ Len(SelectSeq(events', IsTerminal)) <= 1]_vars

\* C17 witness: the match has finished with one survivor and its 'win', and
\* the step has been called again since.
C17_Witness ==
    /\ status["A"] = "FINISHED"
    /\ Len(arena) = 1
    /\ \E k \in DOMAIN events :
        /\ events[k].type = "win"
        /\ events[k].target = arena[1].id
        /\ events[k].frame < frame - 1

\* C18 as stated - of 3 spheres alive, a step that eliminates 2 emits exactly
\* one 'draw' and no 'win'; a step that eliminates 1 emits no terminal event
\* and leaves the status PLAYING.
C18_TwoOfThreeDraw ==
    [][/\ Tick_(3, 1) =>
            /\ Len(SelectSeq(Emitted, IsTerminal)) = 1
            /\ \A k \in DOMAIN Emitted : Emitted[k].type # "win"
       /\ Tick_(3, 2) =>
            /\ SelectSeq(Emitted, IsTerminal) = <<>>
            /\ status'["A"] = "PLAYING"]_vars

\* C18 amended - of 3 spheres alive, a step that eliminates 2 emits exactly one
\* terminal event, the 'win' of the survivor, and no 'draw'; a step that
\* eliminates all 3 emits exactly one 'draw' and no 'win'; a step that
\* eliminates 1 emits no terminal event and leaves the status PLAYING.
C18_TwoOfThreeWin ==
    [][/\ Tick_(3, 1) =>
            /\ Len(SelectSeq(Emitted, IsTerminal)) = 1
            /\ \A k \in DOMAIN Emitted :
                /\ Emitted[k].type # "draw"
                /\ Emitted[k].type = "win" => Emitted[k].target = arena'[1].id
       /\ Tick_(3, 0) =>
            /\ Len(SelectSeq(Emitted, IsTerminal)) = 1
            /\ \A k \in DOMAIN Emitted : Emitted[k].type # "win"
       /\ Tick_(3, 2) =>
            /\ SelectSeq(Emitted, IsTerminal) = <<>>
            /\ status'["A"] = "PLAYING"]_vars

\* C18 witness: one step of a match of 3 has eliminated spheres 1 and 2 and
\* sphere 3 has won.
C18_Witness ==
    /\ Len(arena) = 1
    /\ arena[1].id = 3
    /\ \E a, b, c \in DOMAIN events :
        /\ events[a].type = "eliminated" /\ events[a].target = 1
        /\ events[b].type = "eliminated" /\ events[b].target = 2
        /\ events[c].type = "win" /\ events[c].target = 3
        /\ events[a].frame = events[c].frame
        /\ events[b].frame = events[c].frame

\* C19 - the step is a no-op, the sphere set, the status and the emitted
\* events all unchanged, whenever the status is not PLAYING and whenever the
\* delta time is not a finite number or is <= 0.
C19_GuardedStep ==
    [][\A dt \in Deltas :
        (PhysicsStep("A", dt)
            /\ (status["A"] # "PLAYING" \/ IsNaN(dt) \/ dt <= 0)) =>
            /\ arena' = arena
            /\ status' = status
            /\ events' = events]_vars

\* C20 - within one step the events are in causal order: a 'collision' that
\* leaves a sphere with health <= 0 comes before the 'eliminated' of that
\* sphere, and every 'eliminated' comes before the 'win' or 'draw' of the step.
C20_CausalOrder ==
    \A a, b \in DOMAIN events :
        events[a].frame = events[b].frame =>
            /\ (/\ events[a].type = "collision"
                /\ events[b].type = "eliminated"
                /\ \/ (events[a].s1 = events[b].target /\ events[a].left[1] <= 0)
                   \/ (events[a].s2 = events[b].target /\ events[a].left[2] <= 0))
                    => a < b
            /\ (events[a].type = "eliminated" /\ IsTerminal(events[b])) => a < b

\* C20 witness: in one step a collision has brought two spheres down, both
\* were eliminated, and the step ended the match.
C20_Witness ==
    \E a, b, c, d \in DOMAIN events :
        /\ events[a].type = "collision"
        /\ events[a].left[1] <= 0 /\ events[a].left[2] <= 0
        /\ events[b].type = "eliminated" /\ events[b].target = events[a].s1
        /\ events[c].type = "eliminated" /\ events[c].target = events[a].s2
        /\ IsTerminal(events[d])
        /\ a < b /\ b < c /\ c < d
        /\ events[a].frame = events[d].frame


\* C21: the events array of the Match document holds the persisted gameplay
\* events in the order they were emitted ('eliminated' before the 'win' or
\* 'draw' it causes), and once every update has settled each persisted event
\* that was emitted is in it exactly once, whatever the settling order.
Persisted == SelectSeq(events, LAMBDA ev : ev.type \in PERSISTED)

C21_LogInEmissionOrder ==
    LET log == eventLog[currentGameId["A"]] IN
    /\ \A a, b \in DOMAIN log : a < b => log[a].n < log[b].n
    /\ pushes = <<>> => Len(log) = Len(Persisted)


\* C22: elimination is permanent. Every sphere of the set after a tick has
\* health above 0 and is not marked eliminated; a sphere of the match that is
\* no longer in the set has emitted exactly one 'eliminated' event over the
\* match, and a sphere still in the set has emitted none.
Eliminations(id) ==
    Len(SelectSeq(events, LAMBDA ev : ev.type = "eliminated" /\ ev.target = id))

InArena(id) == \E k \in DOMAIN arena : arena[k].id = id

C22_EliminatedForGood ==
    /\ \A k \in DOMAIN arena :
          /\ ~IsNaN(arena[k].health)
          /\ arena[k].health > 0
          /\ ~arena[k].isEliminated
    /\ \A id \in 1..spheres["A"] :
          Eliminations(id) = IF InArena(id) THEN 0 ELSE 1

\* A sphere was eliminated, and the match was stepped again afterwards with a
\* sphere left in the set.
C22_Witness ==
    /\ arena # <<>>
    /\ \E k \in DOMAIN events :
          events[k].type = "eliminated" /\ events[k].frame + 1 < frame


\* C23: after any sequence of schedule updates, overlapping ones included, at
\* most one 'start-game' job is pending in the Agenda queue.
C23_OnePendingJob == Len(jobs) <= 1


\* C24: absence of proof is failure. A verification that finds no cache entry
\* and gets no usable answer (no endpoint of the chain answers, or the
\* transaction is not found) returns false and writes no cache entry; and a
\* cache entry is written only by a verification that returned true.
NoProof(q, rpc, v2) ==
    /\ q.paymentTxHash \notin cache
    /\ \/ ~Ledger(q.chain, q.paymentTxHash).exists
       \/ ~rpc /\ (q.chain = "TON" => ~v2)

C24_NoProofNoPass ==
    [][\A r \in Reqs :
        /\ \A redis, rpc, v2 \in BOOLEAN :
              VerificationSettles(r, redis, rpc, v2) /\ NoProof(reqs[r], rpc, v2)
                  => ~reqs'[r].verified /\ cache' = cache
        /\ RegisterVerify(r) /\ cache' # cache => reqs'[r].verified]_vars

\* A verification has just returned false for a transaction the chain does
\* not hold and the cache does not list.
C24_Witness ==
    \E r \in Reqs :
        /\ reqs[r].pc = "update"
        /\ ~reqs[r].verified
        /\ reqs[r].paymentTxHash \notin cache
        /\ ~Ledger(reqs[r].chain, reqs[r].paymentTxHash).exists


\* C25: a TON verification returns true only if the transaction is a Jetton
\* transfer of the configured asset to the recipient whose source is the
\* expected wallet and whose amount is at least the fee.
C25_TonJettonChecks ==
    \A r \in Reqs :
        reqs[r].chain = "TON" /\ reqs[r].verified =>
            LET tx == Ledger("TON", reqs[r].paymentTxHash)
            IN /\ tx.exists
               /\ tx.jetton
               /\ tx.source = reqs[r].walletAddress
               /\ tx.received >= REQUIRED_AMOUNT_ATOMIC


\* C26: withRetry invokes the operation at most maxRetries + 1 times, a
\* success returns with no further invocation, and with a timeout per attempt
\* the call ends, returning or throwing, even if an attempt never settles.
C26_BoundedAndTerminates ==
    /\ [](/\ retry.invoked <= retry.maxRetries + 1
          /\ retry.invoked = Cardinality({a \in Attempts : ops[a] # "none"})
          /\ retry.pc = "returned" =>
                /\ ops[retry.invoked] = "ok"
                /\ \A a \in Attempts : a > retry.attempt => ops[a] = "none")
    /\ (retry.pc # "idle" /\ retry.timeoutMs # 0)
          ~> (retry.pc \in {"returned", "thrown"})

\* A call with a timeout has used every retry and ended although an attempt
\* of it never settled.
C26_Witness ==
    /\ retry.pc = "thrown"
    /\ retry.timeoutMs # 0
    /\ retry.maxRetries = MaxRetries
    /\ retry.invoked = MaxRetries + 1
    /\ \E a \in Attempts : ops[a] = "pending"

\* C27: when every attempt fails, withRetry throws the error of the last
\* attempt as it was raised; it returns normally only with the value of an
\* attempt that succeeded.
C27_LastErrorThrown ==
    /\ retry.pc = "thrown" =>
          /\ Len(retry.raised) = retry.invoked
          /\ retry.outcome = retry.raised[Len(retry.raised)]
          /\ retry.outcome \in {<<"error", retry.invoked>>,
                                <<"timed out", retry.invoked>>}
    /\ retry.pc = "returned" =>
          /\ retry.outcome = <<"value", retry.invoked>>
          /\ ops[retry.invoked] = "ok"

\* Two attempts failed with errors of their own and the second was thrown.
C27_Witness ==
    /\ retry.pc = "thrown"
    /\ retry.raised = <<(<<"error", 1>>), (<<"error", 2>>)>>


\* C28: an error raised by the lock store during an election cycle, at the
\* acquire, at the read of the holder or at the renewal, leaves isLeader of
\* the process false and ends the cycle.
C28_StoreErrorDemotes ==
    [][\A i \in Instances :
        \/ ElectAcquireSettles(i, FALSE)
        \/ ElectGetSettles(i, FALSE)
        \/ ElectRenewSettles(i, FALSE)
        => ~isLeader'[i] /\ epc'[i] = "idle"]_vars

\* A process holds the lock and its cycle has ended with isLeader false: the
\* store failed it at the acquire or after.
C28_Witness ==
    \E i \in Instances : lock = i /\ ~isLeader[i] /\ epc[i] = "idle"


\* C30: the result of a match that reaches FINISHED in the physics loop is
\* written to its Match row exactly once. The update is issued on the loop
\* iteration where the status changes from PLAYING to FINISHED, and on no
\* other step: when it is issued, no result of that match is in flight or in
\* its row already.
C30_ResultWrittenOnce ==
    [][LET issued == /\ Len(writes') = Len(writes) + 1
                     /\ writes'[Len(writes')].op = "finish"
           g == writes'[Len(writes')].gid
       IN /\ \A i \in Instances :
                status[i] = "PLAYING" /\ status'[i] = "FINISHED" =>
                    issued /\ g = currentGameId[i]
          /\ issued =>
                /\ \E i \in Instances :
                      /\ status[i] = "PLAYING" /\ status'[i] = "FINISHED"
                      /\ g = currentGameId[i]
                /\ matches[g].status # "FINISHED"
                /\ \A k \in DOMAIN writes : writes[k] # Write("finish", g)]_vars


\* C29: a start() is rejected only while a match is GENERATING or PLAYING;
\* whenever none is, also after a match has FINISHED and no reset() was
\* called, the start() is accepted.
C29_StartUnlessMatchRuns ==
    [][\A i \in Instances :
        AdminStartGame(i) /\ status[i] \notin {"GENERATING", "PLAYING"}
            => lastCall'.ret = "accepted"]_vars


\* C31: every change of the Schedule record is followed by a
\* 'scheduleUpdated' signal carrying the new next time and player count: once
\* no handler is in flight, the last signal carries what the record holds.
C31_ScheduleSignalled ==
    (schedule.exists /\ \A i \in Instances : tasks[i] = <<>>) =>
        announced = Signal(schedule.nextGameTime, schedule.totalPlayers)


\* C32: every accepted start() generates a gameId that differs from the
\* gameId of every earlier round: from the one the process held before, and
\* from every gameId a Match row exists for.
C32_FreshGameId ==
    [][\A i \in Instances :
        AdminStartGame(i) /\ lastCall'.ret = "accepted" =>
            /\ currentGameId'[i] # currentGameId[i]
            /\ matches[currentGameId'[i]].status = "none"]_vars


\* C33: given two spheres at identical coordinates, one physics tick with a
\* finite delta time produces no NaN in the position or the velocity of any
\* sphere.
C33_NoNaNAtDistanceZero ==
    [][\A dt \in Deltas \ {NAN} :
        /\ PhysicsStep("A", dt)
        /\ Len(arena) = 2
        /\ arena[1].x = arena[2].x
        /\ \A k \in DOMAIN arena : ~IsNaN(arena[k].x) /\ ~IsNaN(arena[k].vx)
        => \A k \in DOMAIN arena' : ~IsNaN(arena'[k].x) /\ ~IsNaN(arena'[k].vx)]_vars


\* C34: impulse resolution conserves momentum. When two spheres overlap and
\* approach each other after the movement step, away from the walls, the
\* momentum m1*v1' + m2*v2' after the tick equals the momentum m1*v1 + m2*v2
\* they had going into the resolution.
C34_MomentumConserved ==
    [][\A dt \in Deltas \ {NAN} :
        LET s1 == Move(arena[1], dt)
            s2 == Move(arena[2], dt)
            dx == s2.x - s1.x
        IN /\ PhysicsStep("A", dt)
           /\ status["A"] = "PLAYING"
           /\ Len(arena) = 2 /\ Len(arena') = 2
           /\ dx # 0 /\ Abs(dx) < 2 * RADIUS
           /\ (s2.vx - s1.vx) * dx < 0
           /\ \A k \in 1..2 : arena'[k].x > RADIUS /\ arena'[k].x < ARENA_WIDTH - RADIUS
           /\ s1.x > RADIUS /\ s1.x < ARENA_WIDTH - RADIUS
           /\ s2.x > RADIUS /\ s2.x < ARENA_WIDTH - RADIUS
           => RADIUS * arena'[1].vx + RADIUS * arena'[2].vx
                = RADIUS * s1.vx + RADIUS * s2.vx]_vars

\* Two spheres met head-on with equal and opposite velocities and bounced
\* apart: the first now moves left, the second right.
C34_Witness ==
    /\ frame = 1
    /\ Len(arena) = 2
    /\ \E k \in DOMAIN events : events[k].type = "collision"
    /\ arena[1].vx < 0
    /\ arena[2].vx = -arena[1].vx


\* C35: the totalPlayers target a start() uses and stores on its Match row
\* equals the player count the Schedule record held when the start was made.
C35_TargetFromSchedule ==
    \A g \in GameIds :
        matches[g].status # "none" => matches[g].totalPlayers = matches[g].target


C37_WritesTargetOwnGame ==
    \A i \in Instances :
        \A k \in DOMAIN tasks[i] :
            tasks[i][k].pc \in {"find", "playing", "cancel"} =>
                tasks[i][k].gid = tasks[i][k].round


\* C38: whenever a process has no startGameSequence, no reset and no store
\* write in flight, its in-memory status agrees with the Match row of its
\* current gameId: PLAYING exactly when the row is PLAYING, FINISHED exactly
\* when the row is FINISHED, and IDLE only when the row is absent, CANCELLED
\* or FINISHED.
C38_StatusAgreesWithRow ==
    \A i \in Instances :
        (tasks[i] = <<>> /\ writes = <<>>) =>
            LET row == IF currentGameId[i] \in GameIds
                       THEN matches[currentGameId[i]].status ELSE "none" IN
            /\ (status[i] = "PLAYING") <=> (row = "PLAYING")
            /\ (status[i] = "FINISHED") <=> (row = "FINISHED")
            /\ (status[i] = "IDLE") => row \in {"none", "CANCELLED", "FINISHED"}


\* C39: while the lease is held again and again, a match that is PLAYING on
\* the process that started it always gets one more physics step: at every
\* frame count it has reached, a later step follows or the match has ended.
C39_PlayingIsTicked ==
    []<>(lock # "none") =>
        \A f \in 0..(MaxFrames - 1) :
            (status["A"] = "PLAYING" /\ frame = f) ~>
                (frame > f \/ status["A"] # "PLAYING")


\* C40: once a logout or a refresh with a token has been answered with
\* success, no request that arrives with that token afterwards is accepted
\* (no command runs, no refresh obtains a new token), and of all the refresh
\* requests with one token, concurrent ones included, at most one obtains a
\* new token.
C40_RevokedForGood ==
    /\ \A q \in Auths :
          auths[q].late => auths[q].answer \notin {"accepted", "token"}
    /\ \A t \in 1..MaxTokens :
          Cardinality({q \in Auths : /\ auths[q].kind = "refresh"
                                     /\ auths[q].jti = t
                                     /\ auths[q].answer = "token"}) <= 1

====
